---- MODULE Spec2Model ----
(***************************************************************************)
(* One Bolt connection of the neo4j Python driver: the response queue, the *)
(* server-state manager, the per-version protocol handler                  *)
(* (Bolt5x0 / AsyncBolt4x0.._process_message) and the Response callbacks   *)
(* with the error taxonomy that decides the pool signals.                  *)
(***************************************************************************)
EXTENDS Integers, Sequences, FiniteSets, TLC

\* ------------------------------------------------------------------ bounds

\* Requests enqueued on the connection over its life (the caller's and the
\* implicit RESETs of Response.on_failure).
MaxRequests == 4

\* Requests the caller pipelines: it enqueues a request while fewer than
\* this many responses are pending (a RESET is sent whatever is pending).
MaxPending == 2
\* hello() is called for one of the first MaxHello requests of a connection
MaxHello == 2
\* GOODBYE messages waiting in the outbox at any time
MaxGoodbye == 1
\* requests the caller builds in the specification of the request builders
MaxBuilt == 2
\* timeouts are counted in steps of 1/TimeoutUnit millisecond, from
\* -MaxTimeout to MaxTimeout steps
TimeoutUnit == 4
MaxTimeout == 8
\* the Outbox: max_chunk_size up to MaxChunk (and the two values around the
\* largest chunk header), capacity up to MaxCapacity, write() calls of up
\* to MaxWrite bytes, MaxWrites of them for a message, MaxBytes bytes and
\* MaxMessages messages in the buffer, clear() called while no more than
\* MaxCleared bytes were ever written
MaxChunk == 3
MaxCapacity == 3
MaxWrite == 5
MaxWrites == 2
MaxBytes == 5
MaxMessages == 2
MaxCleared == 2

\* calls of write(), chunk() and clear() in any order: chunk() while _data
\* has up to MaxData bytes, write() of up to MaxWrite bytes while no more
\* than MaxCallBytes were written in all
MaxData == 7
MaxCallBytes == 4

\* the Inbox: up to MaxWire chunks or NOOPs arrive, the server splitting its
\* messages into chunks of up to MaxSplit bytes
MaxWire == 4
MaxSplit == 2

\* pop() is called up to MaxStopped times on an Inbox that has ended; a
\* socket fails after up to MaxBefore whole NOOPs and messages
MaxStopped == 2
MaxBefore == 2

\* an item arrives in two parts after up to MaxParted whole NOOPs and
\* messages
MaxParted == 1

\* ------------------------------------------------------------ message tags

SUCCESS == 112
RECORD  == 113
IGNORED == 126
FAILURE == 127
\* A summary tag that is none of the three above.
UNKNOWN_TAG == 114

\* ------------------------------------------------------------ server codes
\* A status code is kept as the list of its dot-separated parts, that is as
\* code.split(".") of Neo4jError.hydrate sees it.

NoCode == <<>>
EmptyCode == <<"">>
DefaultCode == <<"Neo", "DatabaseError", "General", "UnknownError">>
AuthorizationExpired == <<"Neo", "ClientError", "Security", "AuthorizationExpired">>
Unauthorized == <<"Neo", "ClientError", "Security", "Unauthorized">>
NotALeaderCode == <<"Neo", "ClientError", "Cluster", "NotALeader">>
ForbiddenOnReadOnlyDatabaseCode ==
    <<"Neo", "ClientError", "General", "ForbiddenOnReadOnlyDatabase">>
DatabaseUnavailableCode ==
    <<"Neo", "TransientError", "General", "DatabaseUnavailable">>
SyntaxErrorCode == <<"Neo", "ClientError", "Statement", "SyntaxError">>
MalformedCode == <<"Neo", "Oops">>

CLASSIFICATION_CLIENT == "ClientError"
CLASSIFICATION_TRANSIENT == "TransientError"
CLASSIFICATION_DATABASE == "DatabaseError"

\* The codes a FAILURE reply of the modelled server may carry.
Codes == { AuthorizationExpired, Unauthorized, NotALeaderCode,
           ForbiddenOnReadOnlyDatabaseCode, DatabaseUnavailableCode,
           SyntaxErrorCode }

\* --------------------------------------------------------- error taxonomy

\* class -> its direct base class (exceptions.py and _exceptions.py).
Parent(cls) ==
    CASE cls = "ClientError" -> "Neo4jError"
      [] cls = "DatabaseError" -> "Neo4jError"
      [] cls = "TransientError" -> "Neo4jError"
      [] cls = "DatabaseUnavailable" -> "TransientError"
      [] cls = "NotALeader" -> "TransientError"
      [] cls = "ForbiddenOnReadOnlyDatabase" -> "TransientError"
      [] cls = "ConstraintError" -> "ClientError"
      [] cls = "CypherSyntaxError" -> "ClientError"
      [] cls = "CypherTypeError" -> "ClientError"
      [] cls = "Forbidden" -> "ClientError"
      [] cls = "AuthError" -> "ClientError"
      [] cls = "TokenExpired" -> "AuthError"
      [] cls = "SessionExpired" -> "DriverError"
      [] cls = "ServiceUnavailable" -> "DriverError"
      [] cls = "TransactionError" -> "DriverError"
      [] cls = "TransactionNestingError" -> "DriverError"
      [] cls = "ResultError" -> "DriverError"
      [] cls = "ResultConsumedError" -> "ResultError"
      [] cls = "ResultNotSingleError" -> "ResultError"
      [] cls = "RoutingServiceUnavailable" -> "ServiceUnavailable"
      [] cls = "WriteServiceUnavailable" -> "ServiceUnavailable"
      [] cls = "ReadServiceUnavailable" -> "ServiceUnavailable"
      [] cls = "IncompleteCommit" -> "ServiceUnavailable"
      [] cls = "ConfigurationError" -> "DriverError"
      [] cls = "AuthConfigurationError" -> "ConfigurationError"
      [] cls = "CertificateConfigurationError" -> "ConfigurationError"
      [] cls = "BoltProtocolError" -> "BoltError"
      [] OTHER -> "Exception"

RECURSIVE IsInstance(_, _)
IsInstance(cls, base) ==
    IF cls = base THEN TRUE
    ELSE IF cls = "Exception" THEN FALSE
    ELSE IsInstance(Parent(cls), base)

\* client_errors: code -> class; "" where the dict has no such key.
client_errors(code) ==
    CASE code = <<"Neo", "ClientError", "Schema", "ConstraintValidationFailed">> -> "ConstraintError"
      [] code = <<"Neo", "ClientError", "Schema", "ConstraintViolation">> -> "ConstraintError"
      [] code = <<"Neo", "ClientError", "Statement", "ConstraintVerificationFailed">> -> "ConstraintError"
      [] code = <<"Neo", "ClientError", "Statement", "ConstraintViolation">> -> "ConstraintError"
      [] code = <<"Neo", "ClientError", "Statement", "InvalidSyntax">> -> "CypherSyntaxError"
      [] code = <<"Neo", "ClientError", "Statement", "SyntaxError">> -> "CypherSyntaxError"
      [] code = <<"Neo", "ClientError", "Procedure", "TypeError">> -> "CypherTypeError"
      [] code = <<"Neo", "ClientError", "Statement", "InvalidType">> -> "CypherTypeError"
      [] code = <<"Neo", "ClientError", "Statement", "TypeError">> -> "CypherTypeError"
      [] code = <<"Neo", "ClientError", "General", "ForbiddenOnReadOnlyDatabase">> -> "ForbiddenOnReadOnlyDatabase"
      [] code = <<"Neo", "ClientError", "General", "ReadOnly">> -> "Forbidden"
      [] code = <<"Neo", "ClientError", "Schema", "ForbiddenOnConstraintIndex">> -> "Forbidden"
      [] code = <<"Neo", "ClientError", "Schema", "IndexBelongsToConstraint">> -> "Forbidden"
      [] code = <<"Neo", "ClientError", "Security", "Forbidden">> -> "Forbidden"
      [] code = <<"Neo", "ClientError", "Transaction", "ForbiddenDueToTransactionType">> -> "Forbidden"
      [] code = <<"Neo", "ClientError", "Security", "AuthorizationFailed">> -> "AuthError"
      [] code = <<"Neo", "ClientError", "Security", "Unauthorized">> -> "AuthError"
      [] code = <<"Neo", "ClientError", "Security", "TokenExpired">> -> "TokenExpired"
      [] code = <<"Neo", "ClientError", "Cluster", "NotALeader">> -> "NotALeader"
      [] OTHER -> ""

\* transient_errors: code -> class; "" where the dict has no such key.
transient_errors(code) ==
    CASE code = <<"Neo", "TransientError", "General", "DatabaseUnavailable">> -> "DatabaseUnavailable"
      [] OTHER -> ""

\* Neo4jError._extract_error_class, called on the class Neo4jError.
_extract_error_class(classification, code) ==
    IF classification = CLASSIFICATION_CLIENT
    THEN (IF client_errors(code) # "" THEN client_errors(code) ELSE "ClientError")
    ELSE IF classification = CLASSIFICATION_TRANSIENT
    THEN (IF transient_errors(code) # "" THEN transient_errors(code)
          ELSE "TransientError")
    ELSE IF classification = CLASSIFICATION_DATABASE
    THEN "DatabaseError"
    ELSE "Neo4jError"

\* hydrate taking the first four parts of a code that has more.
hydrate_lenient(code0) ==
    LET code == IF code0 \in {NoCode, EmptyCode} THEN DefaultCode ELSE code0
        unpacks == Len(code) >= 4
        classification ==
            IF ~unpacks THEN CLASSIFICATION_DATABASE
            ELSE IF code = AuthorizationExpired THEN CLASSIFICATION_TRANSIENT
            ELSE code[2]
        category == IF unpacks THEN code[3] ELSE "General"
        title == IF unpacks THEN code[4] ELSE "UnknownError"
    IN  [cls |-> _extract_error_class(classification, code),
         code |-> code,
         classification |-> classification,
         category |-> category,
         title |-> title]

\* hydrate without the special case of AuthorizationExpired.
hydrate_without_relabel(code0) ==
    LET code == IF code0 \in {NoCode, EmptyCode} THEN DefaultCode ELSE code0
        unpacks == Len(code) = 4
        classification ==
            IF ~unpacks THEN CLASSIFICATION_DATABASE ELSE code[2]
        category == IF unpacks THEN code[3] ELSE "General"
        title == IF unpacks THEN code[4] ELSE "UnknownError"
    IN  [cls |-> _extract_error_class(classification, code),
         code |-> code,
         classification |-> classification,
         category |-> category,
         title |-> title]

\* Neo4jError.hydrate(code=...): the error instance, as the record of its
\* class and of the attributes hydrate sets.
hydrate(code0) ==
    LET code == IF code0 \in {NoCode, EmptyCode} THEN DefaultCode ELSE code0
        unpacks == Len(code) = 4
        classification ==
            IF ~unpacks THEN CLASSIFICATION_DATABASE
            ELSE IF code = AuthorizationExpired THEN CLASSIFICATION_TRANSIENT
            ELSE code[2]
        category == IF unpacks THEN code[3] ELSE "General"
        title == IF unpacks THEN code[4] ELSE "UnknownError"
    IN  [cls |-> _extract_error_class(classification, code),
         code |-> code,
         classification |-> classification,
         category |-> category,
         title |-> title]

\* An error that is no Neo4jError: it carries no server code.
DriverErr(cls) ==
    [cls |-> cls, code |-> NoCode, classification |-> "", category |-> "",
     title |-> ""]

NoError == DriverErr("")

\* Neo4jError.invalidates_all_connections
invalidates_all_connections(e) == e.code = AuthorizationExpired

TerminatedCode == <<"Neo", "TransientError", "Transaction", "Terminated">>
LockClientStoppedCode ==
    <<"Neo", "TransientError", "Transaction", "LockClientStopped">>

\* is_retriable of TransientError without the codes it leaves out.
is_retriable_always(e) == IsInstance(e.cls, "TransientError")

\* e.is_retriable(): the method of TransientError for its instances, that
\* of Neo4jError (return False) for the other server errors.
is_retriable(e) ==
    IF IsInstance(e.cls, "TransientError")
    THEN e.code \notin {TerminatedCode, LockClientStoppedCode}
    ELSE FALSE


\* ------------------------------------------------------------ server state

ServerStates == { "CONNECTED", "READY", "STREAMING", "TX_READY",
                  "TX_STREAMING", "FAILED", "DEFUNCT" }

\* ServerStateManager.transition(message, metadata): the state after a
\* SUCCESS reply to the request `message`, from state `st`.
transition(st, message, metadata) ==
    IF message = "reset" THEN "READY"
    ELSE IF st = "CONNECTED" /\ message = "hello" THEN "READY"
    ELSE IF st = "READY" /\ message = "run" THEN "STREAMING"
    ELSE IF st = "READY" /\ message = "begin" THEN "TX_READY"
    ELSE IF st = "STREAMING" /\ message \in {"pull", "discard"}
    THEN (IF metadata.has_more THEN "STREAMING" ELSE "READY")
    ELSE IF st = "TX_READY" /\ message = "run" THEN "TX_STREAMING"
    ELSE IF st = "TX_STREAMING" /\ message \in {"pull", "discard"}
    THEN (IF metadata.has_more THEN "TX_STREAMING" ELSE "TX_READY")
    ELSE IF st \in {"TX_READY", "TX_STREAMING"}
            /\ message \in {"commit", "rollback"} THEN "READY"
    ELSE st

\* ------------------------------------------------------------------- state

VARIABLES
    responses,  \* self.responses: the queue of pending Response objects
    state,      \* self._server_state_manager.state
    next_id,    \* the number of the next request enqueued (1, 2, ...)
    popped,     \* the ids of the responses popped so far, in pop order
    stack,      \* the fetch_all() calls in progress, innermost last, and
                \* on top the hello(), route() or reset() that waits in its
                \* send_all() before it enters fetch_all()
    step,       \* everything observed while the latest server message was
                \* processed (or, before any, while the call was made), and
                \* in the send_all() that followed it
    trace,      \* the failure handling observed since the latest message of
                \* the caller's own fetch_all(), nested calls included
    raised,     \* the error the caller's last call raised (NoError: none)
    outbox,     \* the request messages written to the outbox and not yet sent
    version,    \* PROTOCOL_VERSION of the handler class of the connection
    buffer,     \* an Outbox object: max_chunk_size, _header, _start, _end, _data,
                \* and whether a write() on it has raised (specification of
                \* the Outbox only; the connection model keeps messages whole)
    written,    \* the messages written to the Outbox since it was last empty:
                \* the bytes of each, the lengths of its write() calls and
                \* whether the caller has closed it
    nwritten,   \* the number of bytes written to the Outbox since construction
    inbox,      \* a MessageInbox and its socket: what the server has sent
                \* (NOOPs and chunked messages), the number of bytes the
                \* generator has consumed, the (tag, fields) pairs it has
                \* yielded and the number of NOOPs it has logged
                \* (specification of the Inbox only)
    socket,     \* the socket's read timeout, with server_info.agent and
                \* configuration_hints, which hello() fills in with it
                \* (specification of HELLO only)
    sample,     \* a value and what the code under observation made of it
                \* (specifications of functions only)
    peer,       \* a connection of AsyncBolt4x4 that gets the calls and the
                \* server messages of this one (specification of the two
                \* handlers side by side only)
    pool,       \* whether self.pool is set: the connection belongs to a pool
    agent,      \* self.server_info.agent: None until a HELLO is answered
                \* SUCCESS with the name of the server
    callbacks,  \* the summary callbacks of the caller invoked so far, with the
                \* FAILUREs and the RESETs they followed, in the order they
                \* happened (specification of the callbacks only)
    cancel      \* what a reset() of the caller has cancelled so far, while the
                \* server answers it the way section 4.4 describes

vars == <<responses, state, next_id, popped, stack, step, trace, raised,
          outbox, version, buffer, written, nwritten, inbox, socket, sample,
          peer, pool, agent, callbacks, cancel>>

\* The agent by which the server of the model names itself.
DefaultAgent == "Neo4j/5.0.0"

\* The agents of supported servers, and one of another product.
SupportedAgents == {"Neo4j/5.0.0", "Neo4j/4.4.0"}
OtherAgent == "Other/1.0"

\* summary_metadata: has_more, the code of a FAILURE, and "server", the
\* agent, which the replies of the model carry unless they carry a code.
\* NoMeta stands for the metadata of a reply that the code does not read.
Meta(has_more, code) ==
    [has_more |-> has_more, code |-> code,
     server |-> IF code = NoCode THEN <<DefaultAgent>> ELSE <<>>]
NoMeta == Meta(FALSE, NoCode)

\* summary_signature is None
NoSignature == -1

\* What Inbox.__next__ hands to _process_message: (details, summary
\* signature, summary metadata) of one server message.
Record == [details |-> <<"row">>, sig |-> NoSignature, meta |-> NoMeta]
Summary(tag, metadata) == [details |-> <<>>, sig |-> tag, meta |-> metadata]

ServerMessages ==
    {Record}
    \cup {Summary(SUCCESS, Meta(h, NoCode)) : h \in BOOLEAN}
    \cup {Summary(IGNORED, NoMeta)}
    \cup {Summary(FAILURE, Meta(FALSE, c)) : c \in Codes}
    \cup {Summary(UNKNOWN_TAG, NoMeta)}

\* The requests whose handlers the caller supplies (**handlers).
CallerRequests == {"run", "discard", "pull", "begin", "commit", "rollback"}

\* The handlers an operation of Bolt5x0 gives the response of its message:
\* the caller's **handlers, on_success=metadata.update (hello, route),
\* on_failure=fail (reset).
HandlersOf(message) ==
    IF message \in CallerRequests THEN "**handlers"
    ELSE IF message \in {"hello", "route"} THEN "on_success"
    ELSE IF message = "reset" THEN "on_failure"
    ELSE ""

\* Response(connection, message, **handlers), numbered by its enqueue order.
ResponseWith(id, message, cls, handlers) ==
    [id |-> id, message |-> message, cls |-> cls, handlers |-> handlers]

Response(id, message, cls) == ResponseWith(id, message, cls, HandlersOf(message))

\* No response: the frame of a fetch_all() the caller itself started.
NoResponse == Response(0, "", "")

\* self.handlers.get(kind) of response r: "caller" for a caller-supplied
\* callback, "update" for hello's and route's on_success, "fail" for the
\* on_failure of reset(), "" for none.
handler(r, kind) ==
    IF r.handlers = "**handlers" THEN "caller"
    ELSE IF r.handlers = "on_success" /\ kind = "on_success" THEN "update"
    ELSE IF r.handlers = "on_success,on_records"
            /\ kind \in {"on_success", "on_records"} THEN "update"
    ELSE IF r.handlers = "on_failure" /\ kind = "on_failure" THEN "fail"
    ELSE ""

\* One observed event: a log.debug line of a received or sent message
\* ("SUCCESS", "IGNORED", "FAILURE", "RECORD", "RESET"), a handler called
\* ("on_records", ..., "on_summary"; "fail" for the on_failure handler that
\* reset() supplies), a state change reported through
\* on_change ("on_change"), an error caught by the except clauses of
\* _process_message ("except") or a pool call ("deactivate",
\* "on_write_failure", "mark_all_stale"); each with the id of the response
\* it is for and its argument, a list of strings.
Event(ev, id, arg) == [ev |-> ev, id |-> id, arg |-> arg]

PoolCalls == {"deactivate", "on_write_failure", "mark_all_stale"}

\* The events of the handling of a FAILURE: the reply, the RESET that
\* Response.on_failure sends, the on_failure handler, the error caught and
\* the pool call.
FailurePath == {"FAILURE", "RESET", "on_failure", "fail", "except"} \cup PoolCalls

\* The connection as one record, for the operators below.
Conn == [responses |-> responses, state |-> state, next_id |-> next_id,
         popped |-> popped, stack |-> stack, step |-> step, trace |-> trace,
         raised |-> raised, outbox |-> outbox, pool |-> pool,
         agent |-> agent]

\* Every event goes to the step; the trace keeps those of the failure path.
Log(c, ev, r, arg) ==
    [c EXCEPT !.step = Append(@, Event(ev, r.id, arg)),
              !.trace = IF ev \in FailurePath
                        THEN Append(@, Event(ev, r.id, arg)) ELSE @]

\* The argument of a SUCCESS line and of on_success: what of the metadata
\* the model keeps.
MetaArg(metadata) == IF metadata.has_more THEN <<"has_more">> ELSE <<>>

\* The argument of an "except" event: the class of the error, then its code.
ErrArg(e) == <<e.cls>> \o e.code

\* handler = self.handlers.get(kind); if callable(handler): handler(...)
call_handler(c, r, kind, arg) ==
    IF handler(r, kind) = "fail" THEN Log(c, "fail", r, arg)
    ELSE IF handler(r, kind) # "" THEN Log(c, kind, r, arg)
    ELSE c

\* response.complete
complete(c, id) == \E i \in 1..Len(c.popped) : c.popped[i] = id

\* A value that is not there: None for an argument, a missing key for a map.
None == <<>>

\* The fields of a request that the model keeps: imp_user and tx_timeout of
\* `extra` (run, begin) or of `db_context` (route), each None when the map
\* has no such key and <<v>> when it maps the key to v.
Fields(imp_user, tx_timeout) == [imp_user |-> imp_user, tx_timeout |-> tx_timeout]
NoFields == Fields(None, None)

\* A request message in the outbox.
Message(message, fields) == [message |-> message, fields |-> fields]

\* Bolt._append(signature, fields, response): the message goes to the
\* outbox and its response to the tail of the queue; a call without a
\* response (goodbye) has nothing to enqueue.
_append(c, message, fields, response) ==
    IF response = NoResponse
    THEN [c EXCEPT !.outbox = Append(@, Message(message, fields))]
    ELSE [c EXCEPT !.outbox = Append(@, Message(message, fields)),
                   !.responses = Append(@, response),
                   !.next_id = @ + 1]

\* Bolt.send_all(): everything in the outbox goes to the socket, observed
\* as one "send" event for each message, in order.
send_all(c) ==
    [c EXCEPT !.outbox = <<>>,
              !.step = @ \o [i \in 1..Len(c.outbox) |->
                                Event("send", 0, c.outbox[i])]]

\* Bolt.fetch_all() entered: response = self.responses[-1], then
\* fetch_message() until response.complete. `resp`/`meta` say who waits for
\* it: NoResponse for the caller, else the response whose on_failure called
\* reset(); `call` names the operation that goes on after fetch_all()
\* ("hello"), "" for one that returns with it.
fetch_all(c, resp, meta) ==
    [c EXCEPT !.stack = Append(@, [target |-> c.responses[Len(c.responses)].id,
                                   resp |-> resp, meta |-> meta,
                                   call |-> "", wait |-> "fetch_all"])]

\* self.send_all() inside hello(), route() or reset(): the call waits there
\* with its requests appended and not sent, and fetch_all() not entered, so
\* no response is chosen to wait for yet.
await_send_all(c, resp, meta, call) ==
    [c EXCEPT !.stack = Append(@, [target |-> 0, resp |-> resp, meta |-> meta,
                                   call |-> call, wait |-> "send_all"])]

\* The send_all() that hello(), route() or reset() waits in returns: the
\* outbox has gone to the socket, and the call goes on into fetch_all() up
\* to its first wait.
send_all_returns(c) ==
    LET f == c.stack[Len(c.stack)]
        c1 == fetch_all(send_all([c EXCEPT !.stack = SubSeq(@, 1, Len(@) - 1)]),
                        f.resp, f.meta)
    IN  [c1 EXCEPT !.stack[Len(c1.stack)].call = f.call]

\* Bolt5x0.reset up to the wait of send_all(): RESET is appended with
\* on_failure=fail; send_all() and fetch_all() follow.
reset(c, resp, meta) ==
    await_send_all(_append(Log(c, "RESET",
                               Response(c.next_id, "reset", "Response"),
                               <<>>),
                           "reset", NoFields,
                           Response(c.next_id, "reset", "Response")),
                   resp, meta, "")

\* The on_success handler of hello(): self.server_info.update(metadata)
\* takes the agent from the key "server", if the metadata has it.
hello_on_success_agent(c, r, metadata) ==
    IF r.message = "hello" /\ metadata.server # <<>>
    THEN [c EXCEPT !.agent = metadata.server]
    ELSE c

\* Response.on_success calling on_summary whatever has_more says.
Response_on_success_always_summary(c, r, metadata) ==
    call_handler(hello_on_success_agent(
                     call_handler(c, r, "on_success", MetaArg(metadata)),
                     r, metadata),
                 r, "on_summary", <<>>)

\* Response.on_success
Response_on_success(c, r, metadata) ==
    LET c1 == hello_on_success_agent(
                  call_handler(c, r, "on_success", MetaArg(metadata)),
                  r, metadata)
    IN  IF ~metadata.has_more THEN call_handler(c1, r, "on_summary", <<>>)
        ELSE c1

\* Response.on_ignored with the on_ignored handler never looked up.
Response_on_ignored_without_handler(c, r, metadata) ==
    call_handler(c, r, "on_summary", <<>>)

\* Response.on_ignored
Response_on_ignored(c, r, metadata) ==
    call_handler(call_handler(c, r, "on_ignored", <<>>), r, "on_summary", <<>>)

\* The except clauses with the second one left out: only deactivate and
\* mark_all_stale are ever called.
pool_signal_without_write_failure(c, r, e) ==
    IF IsInstance(e.cls, "ServiceUnavailable")
       \/ IsInstance(e.cls, "DatabaseUnavailable")
    THEN IF c.pool THEN Log(c, "deactivate", r, <<>>) ELSE c
    ELSE IF IsInstance(e.cls, "Neo4jError")
            /\ c.pool /\ invalidates_all_connections(e)
    THEN Log(c, "mark_all_stale", r, <<>>)
    ELSE c

\* The except clauses of _process_message around response.on_failure: the
\* pool call chosen by the class of the error e that on_failure raised.
pool_signal(c, r, e) ==
    IF IsInstance(e.cls, "ServiceUnavailable")
       \/ IsInstance(e.cls, "DatabaseUnavailable")
    THEN IF c.pool THEN Log(c, "deactivate", r, <<>>) ELSE c
    ELSE IF IsInstance(e.cls, "NotALeader")
            \/ IsInstance(e.cls, "ForbiddenOnReadOnlyDatabase")
    THEN IF c.pool THEN Log(c, "on_write_failure", r, <<>>) ELSE c
    ELSE IF IsInstance(e.cls, "Neo4jError")
            /\ c.pool /\ invalidates_all_connections(e)
    THEN Log(c, "mark_all_stale", r, <<>>)
    ELSE c

RECURSIVE on_failure_raised(_, _, _, _)
RECURSIVE Response_on_failure_after_reset(_, _, _, _)
RECURSIVE propagate(_, _, _)

\* An error e leaves fetch_message() inside the innermost fetch_all(): it
\* reaches the caller, or the try block around self.connection.reset() in
\* Response.on_failure, which swallows SessionExpired and ServiceUnavailable.
propagate(c, e, hraise) ==
    LET f == c.stack[Len(c.stack)]
        c1 == [c EXCEPT !.stack = SubSeq(@, 1, Len(@) - 1)]
    IN  IF f.resp = NoResponse
        THEN [c1 EXCEPT !.raised = e]
        ELSE IF IsInstance(e.cls, "SessionExpired")
                \/ IsInstance(e.cls, "ServiceUnavailable")
        THEN Response_on_failure_after_reset(c1, f.resp, f.meta, hraise)
        ELSE on_failure_raised(c1, f.resp, e, hraise)

\* response.on_failure(...) of _process_message raised e: the pool is
\* signalled and e is raised again.
on_failure_raised(c, r, e, hraise) ==
    propagate(pool_signal(Log(c, "except", r, ErrArg(e)), r, e), e, hraise)

\* Response.on_failure after self.connection.reset(): the on_failure
\* handler, on_summary, then the hydrated error. hraise: the caller's
\* on_failure callback raises.
Response_on_failure_after_reset(c, r, metadata, hraise) ==
    LET c1 == call_handler(c, r, "on_failure", metadata.code)
    IN  IF handler(r, "on_failure") = "fail"
        THEN on_failure_raised(c1, r, DriverErr("BoltProtocolError"), hraise)
        ELSE IF handler(r, "on_failure") = "caller" /\ hraise
        THEN on_failure_raised(c1, r, DriverErr("HandlerError"), hraise)
        ELSE on_failure_raised(call_handler(c1, r, "on_summary", <<>>), r,
                               hydrate(metadata.code), hraise)

\* Response.on_failure with the handler called before
\* self.connection.reset() instead of after it.
Response_on_failure_handler_first(c, r, metadata) ==
    reset(call_handler(c, r, "on_failure", metadata.code), r, metadata)

\* Response.on_failure up to the wait of reset()'s send_all().
Response_on_failure(c, r, metadata) == reset(c, r, metadata)

\* on_failure of an InitResponse that does not override Response.on_failure.
InitResponse_on_failure_inherited(c, r, metadata, hraise) ==
    Response_on_failure(c, r, metadata)

\* InitResponse.on_failure
InitResponse_on_failure(c, r, metadata, hraise) ==
    IF metadata.code = Unauthorized
    THEN on_failure_raised(c, r, hydrate(metadata.code), hraise)
    ELSE on_failure_raised(c, r, DriverErr("ServiceUnavailable"), hraise)

\* check_supported_server_product(agent): the error it raises, "" for
\* none. A server that does not name itself Neo4j is refused; with no agent
\* at all, agent.startswith fails.
check_supported_server_product(a) ==
    IF a = <<>> THEN "AttributeError"
    ELSE IF a[1] \notin SupportedAgents THEN "UnsupportedServerProduct"
    ELSE ""

\* fetch_all() returned to the operation of the frame f: hello() goes on
\* with check_supported_server_product(self.server_info.agent), the others
\* return.
after_fetch_all(c, f) ==
    IF f.call = "hello" /\ check_supported_server_product(c.agent) # ""
    THEN [c EXCEPT !.raised = DriverErr(check_supported_server_product(c.agent))]
    ELSE c

\* fetch_message() returned inside the innermost fetch_all(): the loop ends
\* once its response is complete, and the call returns to the caller or
\* into the Response.on_failure that called reset().
fetch_all_loop(c, hraise) ==
    LET f == c.stack[Len(c.stack)]
        c1 == [c EXCEPT !.stack = SubSeq(@, 1, Len(@) - 1)]
    IN  IF ~complete(c, f.target) THEN c
        ELSE IF f.resp = NoResponse THEN after_fetch_all(c1, f)
        ELSE Response_on_failure_after_reset(c1, f.resp, f.meta, hraise)

\* self.responses.pop() in place of popleft(): the newest response is taken.
popleft_tail(c) ==
    [c EXCEPT !.responses = SubSeq(@, 1, Len(@) - 1),
              !.popped = Append(@, c.responses[Len(c.responses)].id)]

\* self.responses[0] in place of popleft(): the response stays queued.
popleft_keep(c) == [c EXCEPT !.popped = Append(@, Head(c.responses).id)]

\* response = self.responses.popleft(); response.complete = True
popleft(c) ==
    [c EXCEPT !.responses = Tail(@),
              !.popped = Append(@, Head(c.responses).id)]

\* self.responses[-1].on_records(details) in place of self.responses[0].
deliver_details_tail(c, msg) ==
    IF msg.details # <<>>
    THEN call_handler(Log(c, "RECORD", c.responses[Len(c.responses)], <<>>),
                      c.responses[Len(c.responses)], "on_records", msg.details)
    ELSE c

\* _process_message, lines 269-272: the details go to on_records of the
\* response at the head of the queue.
deliver_details(c, msg) ==
    IF msg.details # <<>>
    THEN call_handler(Log(c, "RECORD", Head(c.responses), <<>>),
                      Head(c.responses), "on_records", msg.details)
    ELSE c

\* self._server_state_manager.transition(response.message, metadata) with
\* _on_server_state_change, the manager's on_change, called when the state
\* changes.
ServerStateManager_transition(c, response, metadata) ==
    LET new == transition(c.state, response.message, metadata)
    IN  IF new = c.state THEN c
        ELSE [Log(c, "on_change", response, <<c.state, new>>)
                 EXCEPT !.state = new]

\* The SUCCESS branch with transition(response.message, {}): the summary
\* metadata, has_more included, does not reach the state manager.
process_success_without_metadata(c, response, metadata) ==
    Response_on_success(
        ServerStateManager_transition(Log(c, "SUCCESS", response, MetaArg(metadata)),
                                      response, NoMeta),
        response, metadata)

\* _process_message, the SUCCESS branch
process_success(c, response, metadata) ==
    Response_on_success(
        ServerStateManager_transition(Log(c, "SUCCESS", response, MetaArg(metadata)),
                                      response, metadata),
        response, metadata)

\* The IGNORED branch followed by the pool call of the first except clause
\* of the FAILURE branch.
process_ignored_deactivating(c, response, metadata) ==
    Log(Response_on_ignored(Log(c, "IGNORED", response, <<>>), response, metadata),
        "deactivate", response, <<>>)

\* The IGNORED branch with the state transition of the SUCCESS branch.
process_ignored_with_transition(c, response, metadata) ==
    Response_on_ignored(
        ServerStateManager_transition(Log(c, "IGNORED", response, <<>>),
                                      response, metadata),
        response, metadata)

\* _process_message, the IGNORED branch
process_ignored(c, response, metadata) ==
    Response_on_ignored(Log(c, "IGNORED", response, <<>>), response, metadata)

\* _process_message, the FAILURE branch
process_failure(c, response, metadata, hraise) ==
    LET c1 == [Log(c, "FAILURE", response, metadata.code)
                  EXCEPT !.state = "FAILED"]
    IN  IF response.cls = "InitResponse"
        THEN InitResponse_on_failure(c1, response, metadata, hraise)
        ELSE Response_on_failure(c1, response, metadata)

\* Bolt5x0._process_message(details, summary_signature, summary_metadata),
\* with what follows it in fetch_all() up to the next wait for the server,
\* or up to the wait of send_all() in the reset() of a Response.on_failure.
_process_message(c, msg, hraise) ==
    LET c1 == deliver_details(c, msg)
        response == Head(c1.responses)
        c2 == popleft(c1)
    IN  IF msg.sig = NoSignature THEN fetch_all_loop(c1, hraise)
        ELSE IF msg.sig = SUCCESS
        THEN fetch_all_loop(process_success(c2, response, msg.meta), hraise)
        ELSE IF msg.sig = IGNORED
        THEN fetch_all_loop(process_ignored(c2, response, msg.meta), hraise)
        ELSE IF msg.sig = FAILURE
        THEN process_failure(c2, response, msg.meta, hraise)
        ELSE propagate(c2, DriverErr("BoltProtocolError"), hraise)

\* ------------------------------------------------------------- the Outbox

\* The largest number struct_pack(">H", n) packs.
U16Max == 65535

\* The default of max_chunk_size.
DefaultChunkSize == 16384

\* The length of the message of scenario S3.
LongMessage == 20000

Min(a, b) == IF a <= b THEN a ELSE b

\* d[a:b] = x on a bytearray d, for 0 <= a <= b: the slice, cut to the
\* length of d, is replaced by x.
SetSlice(d, a, b, x) ==
    SubSeq(d, 1, Min(a, Len(d))) \o x \o SubSeq(d, Min(b, Len(d)) + 1, Len(d))

\* struct_pack(">H", n), for 0 <= n <= U16Max
struct_pack(n) == <<n \div 256, n % 256>>

\* Outbox(capacity, max_chunk_size); _data = bytearray(capacity)
Outbox(capacity, max_chunk_size) ==
    [max_chunk_size |-> max_chunk_size, _header |-> 0, _start |-> 2, _end |-> 2,
     _data |-> [i \in 1..capacity |-> 0], error |-> FALSE]

\* Outbox.clear
clear(o) ==
    [o EXCEPT !._header = 0, !._start = 2, !._end = 2,
              !._data = SetSlice(@, 0, 2, <<0, 0>>)]

\* Outbox.chunk that leaves the bytes of _data as they are where it has
\* them already.
chunk_keeping_bytes(o) ==
    [o EXCEPT !._header = o._end, !._start = o._end + 2, !._end = o._end + 2,
              !._data = IF Len(@) >= o._end + 2 THEN @
                        ELSE SetSlice(@, o._end, o._end + 2, <<0, 0>>)]

\* Outbox.chunk
chunk(o) ==
    [o EXCEPT !._header = o._end, !._start = o._end + 2, !._end = o._end + 2,
              !._data = SetSlice(@, o._end, o._end + 2, <<0, 0>>)]

RECURSIVE write_loop_packing_wrote(_, _, _, _)
\* Outbox.write with struct_pack(">H", wrote): the header gets the length of
\* the last piece written, not of the chunk.
write_loop_packing_wrote(o, b, pos, to_write) ==
    IF to_write <= 0 THEN o
    ELSE IF o.max_chunk_size - (o._end - o._start) = 0
            \/ (/\ o.max_chunk_size - (o._end - o._start) < to_write
                /\ to_write <= o.max_chunk_size)
    THEN write_loop_packing_wrote(chunk(o), b, pos, to_write)
    ELSE LET wrote == Min(to_write, o.max_chunk_size - (o._end - o._start))
             new_end == o._end + wrote
             data == SetSlice(o._data, o._end, new_end,
                              SubSeq(b, pos + 1, pos + wrote))
         IN  IF wrote > U16Max
             THEN [o EXCEPT !._data = data, !._end = new_end, !.error = TRUE]
             ELSE write_loop_packing_wrote(
                      [o EXCEPT !._data = SetSlice(data, o._header, o._header + 2,
                                                   struct_pack(wrote)),
                                !._end = new_end],
                      b, pos + wrote, to_write - wrote)

\* Outbox.write without the split: all the bytes go into the current chunk.
write_loop_unsplit(o, b, pos, to_write) ==
    IF to_write <= 0 THEN o
    ELSE IF o._end - o._start + to_write > U16Max
    THEN [o EXCEPT !._data = SetSlice(@, o._end, o._end + to_write,
                                      SubSeq(b, pos + 1, pos + to_write)),
                   !._end = o._end + to_write,
                   !.error = TRUE]
    ELSE [o EXCEPT !._data =
                       SetSlice(SetSlice(@, o._end, o._end + to_write,
                                         SubSeq(b, pos + 1, pos + to_write)),
                                o._header, o._header + 2,
                                struct_pack(o._end - o._start + to_write)),
                   !._end = o._end + to_write]

RECURSIVE write_loop(_, _, _, _)
\* Outbox.write, the loop `while to_write > 0` from the position pos of b
\* on; struct_pack raises struct.error on a chunk size above U16Max, after
\* the bytes were copied and _end was moved.
write_loop(o, b, pos, to_write) ==
    IF to_write <= 0 THEN o
    ELSE IF o.max_chunk_size - (o._end - o._start) = 0
            \/ (/\ o.max_chunk_size - (o._end - o._start) < to_write
                /\ to_write <= o.max_chunk_size)
    THEN write_loop(chunk(o), b, pos, to_write)
    ELSE LET wrote == Min(to_write, o.max_chunk_size - (o._end - o._start))
             new_end == o._end + wrote
             data == SetSlice(o._data, o._end, new_end,
                              SubSeq(b, pos + 1, pos + wrote))
             new_chunk_size == new_end - o._start
         IN  IF new_chunk_size > U16Max
             THEN [o EXCEPT !._data = data, !._end = new_end, !.error = TRUE]
             ELSE write_loop(
                      [o EXCEPT !._data = SetSlice(data, o._header, o._header + 2,
                                                   struct_pack(new_chunk_size)),
                                !._end = new_end],
                      b, pos + wrote, to_write - wrote)

\* Outbox.write(b) that opens a chunk for its bytes whether or not the
\* current chunk is empty.
write_opening_chunk(o, b) ==
    IF Len(b) = 0 THEN o ELSE write_loop(chunk(o), b, 0, Len(b))

\* Outbox.write(b)
write(o, b) == write_loop(o, b, 0, Len(b))

\* view() returning self._data[:end] whether or not the chunk is empty.
view_to_end(o) == SubSeq(o._data, 1, o._end)

\* Outbox.view
view(o) ==
    IF o._end - o._start = 0 THEN SubSeq(o._data, 1, o._header)
    ELSE SubSeq(o._data, 1, o._end)

\* The caller's chunk() calls once the bytes of a message are appended: one
\* closes the last chunk of the message, one more puts the zero-length
\* chunk that it opened, the terminator, before the header that view()
\* leaves out.
close_message(o) == chunk(chunk(o))

\* -------------------------------------------------------- request builders

\* The protocol versions with a handler class in the source: AsyncBolt4x0
\* to AsyncBolt4x4 and Bolt5x0.
Versions == {"4.0", "4.1", "4.2", "4.3", "4.4", "5.0"}

\* The versions whose run and begin are those of AsyncBolt4x0 (4.1, 4.2 and
\* 4.3 inherit them), and whose route is that of AsyncBolt4x0.
RunOf4x0 == {"4.0", "4.1", "4.2", "4.3"}
RouteOf4x0 == {"4.0", "4.1", "4.2"}

\* The values of the imp_user argument: None, the empty string, a name.
ImpUsers == {None, <<"">>, <<"alice">>}

\* The values of the timeout argument: None, an object float() takes no
\* number from (TypeError), a text that is no number (ValueError), the
\* floats inf and nan, and the float of n / TimeoutUnit milliseconds.
Timeout(kind, n) == [kind |-> kind, n |-> n]
Timeouts ==
    {Timeout(k, 0) : k \in {"None", "list", "text", "inf", "nan"}}
    \cup {Timeout("float", n) : n \in (0 - MaxTimeout)..MaxTimeout}

\* if x: the truth value Python gives an argument.
Truthy(x) == x # None /\ x # <<"">>

\* int(q) for the float q = n / d: the fraction is cut off, towards zero.
int(n, d) == IF n >= 0 THEN n \div d ELSE 0 - ((0 - n) \div d)

\* The error left in c.raised by an operation that raises cls.
Raise(c, cls) == [c EXCEPT !.raised = DriverErr(cls)]

\* run and begin, the lines from `if timeout is not None`: the error raised
\* ("" for none) and the value of extra["tx_timeout"] (None for no key).
tx_timeout(timeout) ==
    IF timeout.kind = "None" THEN [error |-> "", value |-> None]
    ELSE IF timeout.kind = "list" THEN [error |-> "TypeError", value |-> None]
    ELSE IF timeout.kind \in {"text", "nan"}
    THEN [error |-> "ValueError", value |-> None]
    ELSE IF timeout.kind = "inf" THEN [error |-> "OverflowError", value |-> None]
    ELSE IF int(timeout.n, TimeoutUnit) < 0
    THEN [error |-> "ValueError", value |-> None]
    ELSE [error |-> "", value |-> <<int(timeout.n, TimeoutUnit)>>]

\* run and begin of AsyncBolt4x0, AsyncBolt4x4 and Bolt5x0: the message
\* with the imp_user and tx_timeout of its extra, and a response with the
\* handlers given.
build(c, message, imp_user, timeout, handlers) ==
    IF version \in RunOf4x0 /\ imp_user # None
    THEN Raise(c, "ConfigurationError")
    ELSE IF tx_timeout(timeout).error # ""
    THEN Raise(c, tx_timeout(timeout).error)
    ELSE _append(c, message,
                 Fields(IF Truthy(imp_user) THEN imp_user ELSE None,
                        tx_timeout(timeout).value),
                 ResponseWith(c.next_id, message, "Response", handlers))

\* run(query, ..., timeout, db, imp_user, **handlers)
run(c, imp_user, timeout, handlers) == build(c, "run", imp_user, timeout, handlers)

\* begin(mode, ..., timeout, db, imp_user, **handlers)
begin(c, imp_user, timeout) == build(c, "begin", imp_user, timeout, "**handlers")

\* discard, pull, commit, rollback: _append with a response of the class cls
simple(c, message, cls) ==
    _append(c, message, NoFields, Response(c.next_id, message, cls))

\* pull(n, qid, **handlers)
pull(c, handlers) ==
    _append(c, "pull", NoFields,
            ResponseWith(c.next_id, "pull", "Response", handlers))

\* goodbye
goodbye(c) == _append(c, "goodbye", NoFields, NoResponse)

\* hello up to the wait of send_all(): HELLO is appended with an
\* InitResponse; send_all() and fetch_all() follow, and
\* check_supported_server_product the return of fetch_all().
hello(c) ==
    await_send_all(_append(c, "hello", NoFields,
                           Response(c.next_id, "hello", "InitResponse")),
                   NoResponse, NoMeta, "hello")

\* route(database, imp_user, bookmarks) up to the wait of send_all():
\* AsyncBolt4x0 calls run and pull, AsyncBolt4x3 appends ROUTE with the
\* database, AsyncBolt4x4 and Bolt5x0 append ROUTE with db_context.
route(c, imp_user) ==
    IF version \notin {"4.4", "5.0"} /\ imp_user # None
    THEN Raise(c, "ConfigurationError")
    ELSE IF version \in RouteOf4x0
    THEN await_send_all(pull(run(c, None, Timeout("None", 0), "on_success"),
                             "on_success,on_records"),
                        NoResponse, NoMeta, "")
    ELSE await_send_all(_append(c, "route", Fields(imp_user, None),
                                Response(c.next_id, "route", "Response")),
                        NoResponse, NoMeta, "")

\* is_reset (property of Bolt5x0 and AsyncBolt4x0)
is_reset ==
    IF Len(responses) > 0 /\ responses[Len(responses)].message = "reset"
    THEN TRUE
    ELSE state = "READY"

\* ----------------------------------------------------------------- actions

\* The connection becomes c.
SetConn(c) ==
    /\ responses' = c.responses
    /\ state' = c.state
    /\ next_id' = c.next_id
    /\ popped' = c.popped
    /\ stack' = c.stack
    /\ step' = c.step
    /\ trace' = c.trace
    /\ raised' = c.raised
    /\ outbox' = c.outbox
    /\ version' = version
    /\ pool' = c.pool
    /\ agent' = c.agent

\* The connection becomes c, and nothing else changes.
Set(c) ==
    /\ SetConn(c)
    /\ UNCHANGED <<buffer, written, nwritten, inbox, socket, sample, peer, callbacks>>

\* The caller holds the connection and no call is in progress; its next
\* call starts with nothing observed yet.
Idle == [Conn EXCEPT !.step = <<>>, !.trace = <<>>, !.raised = NoError]

\* No reset() of the caller is observed.
NoCancel == [active |-> FALSE, before |-> "", pending |-> <<>>, ignored |-> <<>>]

\* The caller calls reset(): the state and the pending responses it finds.
StartCancel ==
    [active |-> TRUE, before |-> state, pending |-> responses, ignored |-> <<>>]

IsOnIgnored(e) == e.ev = "on_ignored"

\* The ids of the on_ignored handlers called in the events st, in call order.
IgnoredIn(st) ==
    [i \in 1..Len(SelectSeq(st, IsOnIgnored)) |-> SelectSeq(st, IsOnIgnored)[i].id]

\* The caller's reset() after the message msg, which left the step st: it
\* stays observed while the server replies IGNORED to each response pending
\* before the RESET and SUCCESS to the RESET, and is dropped otherwise.
ObserveCancel(msg, st) ==
    IF /\ cancel.active
       /\ Len(stack) = 1
       /\ \/ Head(responses).id # stack[1].target /\ msg.sig = IGNORED
          \/ Head(responses).id = stack[1].target /\ msg.sig = SUCCESS
    THEN [cancel EXCEPT !.ignored = @ \o IgnoredIn(st)]
    ELSE NoCancel

\* A call of the caller other than reset().
Call(c) == Set(c) /\ cancel' = NoCancel

CanCall == stack = <<>> /\ next_id <= MaxRequests

CanEnqueue == CanCall /\ Len(responses) < MaxPending

\* The values of the connection model, which has no bytes.
Unframed == buffer = <<>> /\ written = <<>> /\ nwritten = 0 /\ inbox = <<>>

Init ==
    /\ responses = <<>>
    /\ state = "CONNECTED"
    /\ next_id = 1
    /\ popped = <<>>
    /\ stack = <<>>
    /\ step = <<>>
    /\ trace = <<>>
    /\ raised = NoError
    /\ outbox = <<>>
    /\ version = "5.0"
    /\ pool = TRUE
    /\ agent = <<>>
    /\ Unframed
    /\ peer = <<>>
    /\ callbacks = <<>>
    /\ socket = <<>>
    /\ sample = <<>>
    /\ cancel = NoCancel

\* Bolt5x0.hello up to the wait of send_all()
Hello ==
    /\ CanEnqueue
    /\ next_id <= MaxHello
    /\ Call(hello(Idle))

\* Bolt5x0.route up to the wait of send_all()
Route ==
    /\ CanEnqueue
    /\ Call(route(Idle, None))

\* run() followed by a send_all() of its own.
Run_sending ==
    /\ CanEnqueue
    /\ Call(send_all(run(Idle, None, Timeout("None", 0), "**handlers")))

\* Bolt5x0.run
Run == CanEnqueue /\ Call(run(Idle, None, Timeout("None", 0), "**handlers"))

\* Bolt5x0.discard
Discard == CanEnqueue /\ Call(simple(Idle, "discard", "Response"))

\* Bolt5x0.pull
Pull == CanEnqueue /\ Call(pull(Idle, "**handlers"))

\* begin() moving the server state when the request is built.
Begin_optimistic ==
    /\ CanEnqueue
    /\ Call([begin(Idle, None, Timeout("None", 0)) EXCEPT !.state = "TX_READY"])

\* Bolt5x0.begin
Begin == CanEnqueue /\ Call(begin(Idle, None, Timeout("None", 0)))

\* Bolt5x0.commit
Commit == CanEnqueue /\ Call(simple(Idle, "commit", "CommitResponse"))

\* Bolt5x0.rollback
Rollback == CanEnqueue /\ Call(simple(Idle, "rollback", "Response"))

IsGoodbye(m) == m.message = "goodbye"

\* Bolt5x0.goodbye
Goodbye ==
    /\ stack = <<>>
    /\ Len(SelectSeq(outbox, IsGoodbye)) < MaxGoodbye
    /\ Call(goodbye(Idle))

\* Bolt.send_all, called by the caller; with an empty outbox it sends
\* nothing.
SendAll ==
    /\ stack = <<>>
    /\ outbox # <<>>
    /\ Call(send_all(Idle))

\* Bolt5x0.reset, called by the caller, up to the wait of send_all()
Reset ==
    /\ CanCall
    /\ Set(reset(Idle, NoResponse, NoMeta))
    /\ cancel' = StartCancel

\* The innermost call in progress waits in send_all(), or in fetch_all().
Sending == stack # <<>> /\ stack[Len(stack)].wait = "send_all"
Fetching == stack # <<>> /\ stack[Len(stack)].wait = "fetch_all"

\* The send_all() of hello(), route() or reset() returns, the reset() of a
\* Response.on_failure included, and the call goes on to the first wait of
\* its fetch_all().
SendAllReturns ==
    /\ Sending
    /\ Set(send_all_returns(Conn))
    /\ UNCHANGED cancel

\* Bolt.fetch_all, called by the caller, up to its first wait
FetchAll ==
    /\ stack = <<>>
    /\ responses # <<>>
    /\ Call(fetch_all(Idle, NoResponse, NoMeta))

\* The connection as the next message finds it: a message for the caller's
\* own fetch_all() starts a new trace, and every message a new step.
Observed ==
    IF Len(stack) = 1 THEN [Conn EXCEPT !.step = <<>>, !.trace = <<>>]
    ELSE [Conn EXCEPT !.step = <<>>]

IsRequest(m) == m.message # "goodbye"

\* The server answers the requests it has received: the request of the
\* response at the head of the queue has left the outbox.
HeadWasSent == Len(responses) > Len(SelectSeq(outbox, IsRequest))

\* Bolt.fetch_message inside a fetch_all(): one server message arrives and
\* _process_message handles it. A FAILURE needs room for the implicit RESET.
FetchMessage(msg, hraise) ==
    /\ Fetching
    /\ HeadWasSent
    /\ (msg.sig = FAILURE /\ Head(responses).cls # "InitResponse")
           => next_id <= MaxRequests
    /\ Set(_process_message(Observed, msg, hraise))
    /\ cancel' = ObserveCancel(msg, _process_message(Observed, msg, hraise).step)

\* Whether the caller's on_failure callback raises when this step calls
\* it; a step calls it only on the return of an implicit reset().
HandlerOutcomes == IF Len(stack) > 1 THEN BOOLEAN ELSE {FALSE}

Next ==
    \/ Hello
    \/ Route
    \/ Run
    \/ Discard
    \/ Pull
    \/ Begin
    \/ Commit
    \/ Rollback
    \/ Goodbye
    \/ SendAll
    \/ Reset
    \/ SendAllReturns
    \/ FetchAll
    \/ \E msg \in ServerMessages, hraise \in HandlerOutcomes :
           FetchMessage(msg, hraise)

Spec == Init /\ [][Next]_vars

\* --------------------------------------------------- the Outbox on its own

\* The connection as the Outbox specification leaves it: untouched.
ConnInit ==
    /\ responses = <<>>
    /\ state = "CONNECTED"
    /\ next_id = 1
    /\ popped = <<>>
    /\ stack = <<>>
    /\ step = <<>>
    /\ trace = <<>>
    /\ raised = NoError
    /\ outbox = <<>>
    /\ version = "5.0"
    /\ pool = TRUE
    /\ agent = <<>>
    /\ socket = <<>>
    /\ peer = <<>>
    /\ callbacks = <<>>
    /\ cancel = NoCancel

connvars_but_sample ==
    <<responses, state, next_id, popped, stack, step, trace, raised,
      outbox, version, socket, peer, pool, agent, callbacks, cancel>>
connvars == <<connvars_but_sample, sample>>

\* The values of max_chunk_size: the small ones, the default, the largest
\* chunk size a header holds and the one above it.
LongChunkSizes == {DefaultChunkSize, U16Max, U16Max + 1}
ChunkSizes == (1..MaxChunk) \cup LongChunkSizes

\* The n bytes written after the first k: byte number i of all the bytes
\* ever written has the value i % 256.
Bytes(k, n) == [i \in 1..n |-> (k + i - 1) % 256]

\* One message as the observer keeps it.
Written(bytes, writes, closed) ==
    [bytes |-> bytes, writes |-> writes, closed |-> closed]

\* The message being written is the last one, unless that one is closed.
IsOpen == written # <<>> /\ ~written[Len(written)].closed

\* The observer after a write of the bytes b.
AfterWrite(b) ==
    IF IsOpen
    THEN [written EXCEPT ![Len(written)] =
             Written(@.bytes \o b, Append(@.writes, Len(b)), FALSE)]
    ELSE Append(written, Written(b, <<Len(b)>>, FALSE))

\* All bytes in the buffer's messages.
RECURSIVE TotalBytes(_)
TotalBytes(ms) ==
    IF ms = <<>> THEN 0 ELSE Len(Head(ms).bytes) + TotalBytes(Tail(ms))

InitOutbox ==
    /\ ConnInit
    /\ \E capacity \in {2, MaxCapacity}, max_chunk_size \in ChunkSizes :
           buffer = Outbox(capacity, max_chunk_size)
    /\ written = <<>>
    /\ nwritten = 0
    /\ inbox = <<>>
    /\ sample = <<>>

\* write(b) of n bytes, n small
Write(n) ==
    /\ ~buffer.error
    /\ buffer.max_chunk_size <= MaxChunk
    /\ IF IsOpen THEN Len(written[Len(written)].writes) < MaxWrites
       ELSE Len(written) < MaxMessages
    /\ TotalBytes(written) + n <= MaxBytes
    /\ buffer' = write(buffer, Bytes(nwritten, n))
    /\ written' = AfterWrite(Bytes(nwritten, n))
    /\ nwritten' = nwritten + n
    /\ UNCHANGED <<connvars, inbox>>

\* write(b) of a long message, the first bytes of an Outbox with long
\* chunks
WriteLong(n) ==
    /\ written = <<>> /\ nwritten = 0
    /\ buffer.max_chunk_size \in LongChunkSizes
    /\ buffer' = write(buffer, Bytes(nwritten, n))
    /\ written' = AfterWrite(Bytes(nwritten, n))
    /\ nwritten' = nwritten + n
    /\ UNCHANGED <<connvars, inbox>>

\* The caller closes the message it has written.
CloseMessage ==
    /\ ~buffer.error
    /\ IsOpen
    /\ written[Len(written)].bytes # <<>>
    /\ buffer' = close_message(buffer)
    /\ written' = [written EXCEPT ![Len(written)].closed = TRUE]
    /\ UNCHANGED <<nwritten, connvars, inbox>>

\* clear(), once the messages are sent
Clear ==
    /\ ~buffer.error
    /\ written # <<>> /\ ~IsOpen
    /\ nwritten <= MaxCleared
    /\ buffer' = clear(buffer)
    /\ written' = <<>>
    /\ UNCHANGED <<nwritten, connvars, inbox>>

NextOutbox ==
    \/ \E n \in 0..MaxWrite : Write(n)
    \/ \E n \in {LongMessage, U16Max, U16Max + 1} : WriteLong(n)
    \/ CloseMessage
    \/ Clear

SpecOutbox == InitOutbox /\ [][NextOutbox]_vars

\* ------------------------------------ the Outbox under calls in any order

\* write(b) of n bytes at any point
WriteAny(n) ==
    /\ ~buffer.error
    /\ buffer.max_chunk_size <= MaxChunk
    /\ nwritten + n <= MaxCallBytes
    /\ buffer' = write(buffer, Bytes(nwritten, n))
    /\ nwritten' = nwritten + n
    /\ UNCHANGED <<written, connvars, inbox>>

\* write(b) of a long message as the first bytes, after any calls of
\* chunk() and clear()
WriteLongAny(n) ==
    /\ nwritten = 0
    /\ buffer.max_chunk_size \in LongChunkSizes
    /\ buffer' = write(buffer, Bytes(nwritten, n))
    /\ nwritten' = nwritten + n
    /\ UNCHANGED <<written, connvars, inbox>>

\* chunk() at any point
ChunkAny ==
    /\ Len(buffer._data) <= MaxData
    /\ buffer' = chunk(buffer)
    /\ UNCHANGED <<written, nwritten, connvars, inbox>>

\* clear() at any point
ClearAny ==
    /\ buffer' = clear(buffer)
    /\ UNCHANGED <<written, nwritten, connvars, inbox>>

NextOutboxCalls ==
    \/ \E n \in 0..MaxWrite : WriteAny(n)
    \/ \E n \in {LongMessage, U16Max, U16Max + 1} : WriteLongAny(n)
    \/ ChunkAny
    \/ ClearAny

SpecOutboxCalls == InitOutbox /\ [][NextOutboxCalls]_vars


\* ---------------------------------------------------- the Inbox on its own

\* buffer.pop_u16() of the two bytes received last
pop_u16(s) == s[Len(s) - 1] * 256 + s[Len(s)]

\* unpacker.unpack_structure_header() and the unpack() of each field from
\* the bytes of a message: the marker B0 + size, the tag, and size fields,
\* each here a one-byte integer.
unpack_structure(data) ==
    [tag |-> data[2],
     fields |-> SubSeq(data, 3, 2 + (data[1] % 16))]

\* What a run of the generator up to its next yield returns: whether it
\* yielded (it blocks in buffer.receive when the bytes run out), the pair
\* yielded, the bytes consumed and the NOOPs logged, and for the receive it
\* blocks in the chunk_size and the data of the message kept so far.
Yielded(message, used, noops) ==
    [ok |-> TRUE, message |-> message, used |-> used, noops |-> noops,
     chunk_size |-> 0, data |-> <<>>]
Blocked(used, noops, chunk_size, data) ==
    [ok |-> FALSE, message |-> <<>>, used |-> used, noops |-> noops,
     chunk_size |-> chunk_size, data |-> data]

\* The inner loop without the skip: a zero length stops the reader.
RECURSIVE skip_noop_stopping(_, _, _)
skip_noop_stopping(s, used, noops) ==
    IF Len(s) - used < 2 THEN [ok |-> FALSE, used |-> used, noops |-> noops]
    ELSE IF pop_u16(SubSeq(s, used + 1, used + 2)) = 0
    THEN [ok |-> FALSE, used |-> used, noops |-> noops + 1]
    ELSE [ok |-> TRUE, used |-> used + 2, noops |-> noops,
          chunk_size |-> pop_u16(SubSeq(s, used + 1, used + 2))]

\* The inner loop, entered with chunk_size = 0: receive two bytes and pop
\* them as the chunk size until it is not 0, logging a NOOP for each 0.
RECURSIVE skip_noop(_, _, _)
skip_noop(s, used, noops) ==
    IF Len(s) - used < 2 THEN [ok |-> FALSE, used |-> used, noops |-> noops]
    ELSE IF pop_u16(SubSeq(s, used + 1, used + 2)) = 0
    THEN skip_noop(s, used + 2, noops + 1)
    ELSE [ok |-> TRUE, used |-> used + 2, noops |-> noops,
          chunk_size |-> pop_u16(SubSeq(s, used + 1, used + 2))]

\* The rest of the outer loop, with chunk_size not 0: receive the chunk and
\* the two bytes after it, pop these as the next chunk size; 0 ends the
\* message, which is unpacked from the data kept and yielded; otherwise the
\* loop goes round with the inner loop skipped.
RECURSIVE read_chunks(_, _, _, _, _)
read_chunks(s, used, noops, chunk_size, data) ==
    IF Len(s) - used < chunk_size + 2
    THEN Blocked(used, noops, chunk_size, data)
    ELSE IF pop_u16(SubSeq(s, used + 1, used + chunk_size + 2)) = 0
    THEN Yielded(unpack_structure(data \o SubSeq(s, used + 1, used + chunk_size)),
                 used + chunk_size + 2, noops)
    ELSE read_chunks(s, used + chunk_size + 2, noops,
                     pop_u16(SubSeq(s, used + 1, used + chunk_size + 2)),
                     data \o SubSeq(s, used + 1, used + chunk_size))

\* The generator without unpacker.reset() after the yield: the bytes
\* consumed before stay in the buffer the next message is unpacked from.
_yield_messages_without_reset(s, used) ==
    IF skip_noop(s, used, 0).ok
    THEN read_chunks(s, skip_noop(s, used, 0).used, skip_noop(s, used, 0).noops,
                     skip_noop(s, used, 0).chunk_size, SubSeq(s, 1, used))
    ELSE Blocked(skip_noop(s, used, 0).used, skip_noop(s, used, 0).noops,
                 0, <<>>)

\* _yield_messages from a yield (or the start) to the next yield, on the
\* bytes s of which used are consumed. The generator resumes after a yield
\* at unpacker.reset(), with chunk_size = 0: it starts each message on an
\* empty buffer.
_yield_messages(s, used) ==
    IF skip_noop(s, used, 0).ok
    THEN read_chunks(s, skip_noop(s, used, 0).used, skip_noop(s, used, 0).noops,
                     skip_noop(s, used, 0).chunk_size, <<>>)
    ELSE Blocked(skip_noop(s, used, 0).used, skip_noop(s, used, 0).noops,
                 0, <<>>)

\* Every pair the generator yields on the bytes s before it blocks.
RECURSIVE AllYielded(_, _)
AllYielded(s, used) ==
    IF _yield_messages(s, used).ok
    THEN <<_yield_messages(s, used).message>>
             \o AllYielded(s, _yield_messages(s, used).used)
    ELSE <<>>

\* The messages of the server as bytes: the marker B0 + size, the tag and
\* the fields.
Packed(tag, fields) == <<176 + Len(fields), tag>> \o fields

\* A SUCCESS without fields and a RECORD with one.
WireMessages == {Packed(112, <<>>), Packed(113, <<1>>)}

\* The bytes b as chunks of up to k bytes, each after its length.
RECURSIVE Chunked(_, _)
Chunked(b, k) ==
    IF b = <<>> THEN <<>>
    ELSE <<Min(k, Len(b)) \div 256, Min(k, Len(b)) % 256>>
             \o SubSeq(b, 1, Min(k, Len(b)))
             \o Chunked(SubSeq(b, Min(k, Len(b)) + 1, Len(b)), k)

\* What the server sends at a time: a NOOP, or a message in chunks and its
\* terminator.
Noop == <<0, 0>>
WireItems ==
    {Noop} \cup {Chunked(m, k) \o <<0, 0>> : m \in WireMessages, k \in 1..MaxSplit}

\* The bytes of a sequence of items.
RECURSIVE Flatten(_)
Flatten(items) ==
    IF items = <<>> THEN <<>> ELSE Head(items) \o Flatten(Tail(items))

IsMessageItem(item) == item # Noop

\* The errors of a read: buffer.receive raises OSError or socket.timeout.
SocketErrors == {"OSError", "socket.timeout"}

\* The bytes that have arrived on the socket: the items that arrived whole
\* and the part of one that arrived before the rest of it, or before the
\* socket failed.
Arrived(i) == Flatten(i.sock) \o i.tail

\* A MessageInbox on a socket: sock, tail, rest and error are the socket's
\* (what has arrived, what of the item arriving is still on its way, and
\* the error its reads raise once what arrived is consumed, if it has
\* failed), used, chunk_size, data, messages and noops the generator's,
\* errors the calls of on_error, waiting whether a pop() is blocked in
\* buffer.receive, result how the latest pop() ended ("" while it has not)
\* and stopped the number of pop() calls that ended on the finished
\* generator.
MessageInbox ==
    [sock |-> <<>>, tail |-> <<>>, rest |-> <<>>, error |-> None, used |-> 0,
     chunk_size |-> 0, data |-> <<>>, waiting |-> FALSE,
     messages |-> <<>>, noops |-> 0, errors |-> <<>>, exhausted |-> FALSE,
     result |-> "", stopped |-> 0]

InitInbox ==
    /\ ConnInit
    /\ buffer = <<>> /\ written = <<>> /\ nwritten = 0
    /\ inbox = MessageInbox
    /\ sample = <<>>

\* The except branch that goes round the loop again after on_error.
except_retrying(i, r, raises) ==
    [i EXCEPT !.used = r.used,
              !.noops = @ + r.noops,
              !.chunk_size = 0,
              !.data = <<>>,
              !.waiting = FALSE,
              !.errors = Append(@, i.error[1]),
              !.result = IF raises THEN i.error[1] ELSE "StopIteration"]

\* except (OSError, socket.timeout) as error: self.on_error(error). The
\* generator ends there: by the error on_error raises, if it raises, or else
\* by returning, which next() turns into StopIteration.
except_on_error(i, r, raises) ==
    [i EXCEPT !.used = r.used,
              !.noops = @ + r.noops,
              !.chunk_size = 0,
              !.data = <<>>,
              !.waiting = FALSE,
              !.errors = Append(@, i.error[1]),
              !.exhausted = TRUE,
              !.result = IF raises THEN i.error[1] ELSE "StopIteration"]

\* next(self._messages) on the generator that yields the pair r.message
yield(i, r) ==
    [i EXCEPT !.used = r.used,
              !.noops = @ + r.noops,
              !.chunk_size = 0,
              !.data = <<>>,
              !.waiting = FALSE,
              !.messages = Append(@, r.message),
              !.result = "yield"]

\* buffer.receive(sock, 2) or buffer.receive(sock, chunk_size + 2) blocks:
\* the bytes it asks for have not all arrived. The generator keeps what it
\* consumed, the NOOPs it logged, its chunk_size and the data of the
\* message so far, and pop() has not ended.
receive_blocks(i, r) ==
    [i EXCEPT !.used = r.used,
              !.noops = @ + r.noops,
              !.chunk_size = r.chunk_size,
              !.data = r.data,
              !.waiting = TRUE,
              !.result = ""]

\* The generator runs on from where it stands, on the bytes that have
\* arrived: from a yield, the start or a blocked buffer.receive(sock, 2)
\* with chunk_size = 0, from a blocked buffer.receive(sock, chunk_size + 2)
\* inside a message.
resumed(i) ==
    IF i.chunk_size = 0 THEN _yield_messages(Arrived(i), i.used)
    ELSE read_chunks(Arrived(i), i.used, 0, i.chunk_size, i.data)

\* next(self._messages), and the same call going on when the
\* buffer.receive it is blocked in returns or raises.
next(i, raises) ==
    IF resumed(i).ok THEN yield(i, resumed(i))
    ELSE IF i.error # None THEN except_on_error(i, resumed(i), raises)
    ELSE receive_blocks(i, resumed(i))

\* next(self._messages) on the generator that has ended
StopIteration(i) ==
    [i EXCEPT !.result = "StopIteration", !.stopped = @ + 1]

\* pop(): next() of the generator. raises says whether on_error raises.
pop(i, raises) ==
    IF i.exhausted THEN StopIteration(i) ELSE next(i, raises)

\* Inbox.__next__ on the pair pop() returns: the fields of a RECORD as the
\* details, or else the tag as the summary and the first field, if there is
\* one, as its metadata.
__next__(message) ==
    IF message.tag = 113
    THEN [details |-> message.fields, summary_signature |-> None,
          summary_metadata |-> None]
    ELSE IF message.fields # <<>>
    THEN [details |-> <<>>, summary_signature |-> <<message.tag>>,
          summary_metadata |-> <<message.fields[1]>>]
    ELSE [details |-> <<>>, summary_signature |-> <<message.tag>>,
          summary_metadata |-> None]

\* The server sends a NOOP or a message, which arrives whole.
Receive(item) ==
    /\ inbox.error = None /\ inbox.rest = <<>>
    /\ Len(inbox.sock) < MaxWire
    /\ inbox' = [inbox EXCEPT !.sock = Append(@, item)]
    /\ UNCHANGED <<connvars, buffer, written, nwritten>>

\* The server sends a NOOP or a message of which the first k bytes arrive
\* before the rest.
ReceivePart(item, k) ==
    /\ inbox.error = None /\ inbox.rest = <<>>
    /\ Len(inbox.sock) <= MaxParted
    /\ inbox' = [inbox EXCEPT !.tail = SubSeq(item, 1, k),
                              !.rest = SubSeq(item, k + 1, Len(item))]
    /\ UNCHANGED <<connvars, buffer, written, nwritten>>

\* The rest of the item arrives.
ReceiveRest ==
    /\ inbox.rest # <<>>
    /\ inbox' = [inbox EXCEPT !.sock = Append(@, inbox.tail \o inbox.rest),
                              !.tail = <<>>, !.rest = <<>>]
    /\ UNCHANGED <<connvars, buffer, written, nwritten>>

\* The socket fails after the first k bytes of an item: once they are
\* consumed, a read raises error.
Break(item, k, error) ==
    /\ inbox.error = None /\ inbox.rest = <<>>
    /\ Len(inbox.sock) <= MaxBefore
    /\ inbox' = [inbox EXCEPT !.tail = SubSeq(item, 1, k), !.error = <<error>>]
    /\ UNCHANGED <<connvars, buffer, written, nwritten>>

\* The socket fails before the rest of the item arrives.
BreakRest(error) ==
    /\ inbox.rest # <<>>
    /\ Len(inbox.sock) <= MaxBefore
    /\ inbox' = [inbox EXCEPT !.rest = <<>>, !.error = <<error>>]
    /\ UNCHANGED <<connvars, buffer, written, nwritten>>

\* pop() is called: it returns a message, ends on a read error, finds the
\* generator ended, or blocks in buffer.receive, having consumed what
\* arrived of the NOOPs and chunks before it.
Pop(raises) ==
    /\ ~inbox.waiting
    /\ inbox.exhausted => inbox.stopped < MaxStopped
    /\ inbox' = pop(inbox, raises)
    /\ UNCHANGED <<connvars, buffer, written, nwritten>>

\* The buffer.receive that pop() is blocked in returns, the bytes it asked
\* for having arrived, or raises, the socket having failed: the generator
\* goes on to its next yield, to the except branch, or to a buffer.receive
\* that blocks again.
ReceiveReturns(raises) ==
    /\ inbox.waiting
    /\ \/ inbox.error # None
       \/ resumed(inbox).ok
       \/ resumed(inbox).used # inbox.used
    /\ inbox' = next(inbox, raises)
    /\ UNCHANGED <<connvars, buffer, written, nwritten>>

NextInbox ==
    \/ \E item \in WireItems : Receive(item)
    \/ \E item \in WireItems : \E k \in 1..(Len(item) - 1) : ReceivePart(item, k)
    \/ ReceiveRest
    \/ \E item \in WireItems, error \in SocketErrors :
           \E k \in 0..(Len(item) - 1) : Break(item, k, error)
    \/ \E error \in SocketErrors : BreakRest(error)
    \/ \E raises \in BOOLEAN : Pop(raises)
    \/ \E raises \in BOOLEAN : ReceiveReturns(raises)

SpecInbox == InitInbox /\ [][NextInbox]_vars

\* ------------------------------------- the request builders of every version

\* A connection of any protocol version, as the pool opens it.
InitBuild ==
    /\ responses = <<>>
    /\ state = "CONNECTED"
    /\ next_id = 1
    /\ popped = <<>>
    /\ stack = <<>>
    /\ step = <<>>
    /\ trace = <<>>
    /\ raised = NoError
    /\ outbox = <<>>
    /\ version \in Versions
    /\ pool = TRUE
    /\ agent = <<>>
    /\ Unframed
    /\ peer = <<>>
    /\ callbacks = <<>>
    /\ socket = <<>>
    /\ sample = <<>>
    /\ cancel = NoCancel

CanBuild == stack = <<>> /\ next_id <= MaxBuilt /\ Len(responses) < MaxPending

\* run(..., timeout=timeout, imp_user=imp_user, **handlers)
RunWith(imp_user, timeout) ==
    CanBuild /\ Call(run(Idle, imp_user, timeout, "**handlers"))

\* begin(..., timeout=timeout, imp_user=imp_user, **handlers)
BeginWith(imp_user, timeout) ==
    CanBuild /\ Call(begin(Idle, imp_user, timeout))

\* route(imp_user=imp_user) up to the wait of send_all()
RouteWith(imp_user) ==
    CanBuild /\ Call(route(Idle, imp_user))

NextBuild ==
    \/ Hello
    \/ \E imp_user \in ImpUsers, timeout \in Timeouts : RunWith(imp_user, timeout)
    \/ \E imp_user \in ImpUsers, timeout \in Timeouts : BeginWith(imp_user, timeout)
    \/ \E imp_user \in ImpUsers : RouteWith(imp_user)
    \/ SendAll
    \/ SendAllReturns
    \/ FetchAll
    \/ \E msg \in ServerMessages, hraise \in HandlerOutcomes :
           FetchMessage(msg, hraise)

SpecBuild == InitBuild /\ [][NextBuild]_vars

\* ------------------------------------------------------ HELLO and the hints

\* A value of the server's metadata with its Python type: n is the number
\* (1 and 0 for True and False), or the number a string spells.
Value(type, n) == [type |-> type, n |-> n]

\* The values a server may give connection.recv_timeout_seconds.
HintValues ==
    {Value("int", n) : n \in {-1, 0, 1, 120}}
    \cup {Value("bool", n) : n \in {0, 1}}
    \cup {Value("float", 120), Value("str", 120), Value("NoneType", 0)}

\* isinstance(v, int): bool is a subclass of int.
isinstance_int(v) == v.type \in {"int", "bool"}

\* The agents of the servers that answer HELLO.
Agents == SupportedAgents \cup {OtherAgent}

\* The socket of a new connection with the read timeout the pool gave it,
\* no server_info.agent and no configuration_hints yet; invalid counts the
\* log.info lines about an invalid hint.
Socket(timeout) ==
    [timeout |-> timeout, before |-> timeout, agent |-> None,
     hints |-> None, invalid |-> 0]

\* The SUCCESS metadata of HELLO: "server", and "hints" if hints is not
\* None, with connection.recv_timeout_seconds in them.
HelloMetadata(server, hints) == [server |-> server, hints |-> hints]

\* on_success with the test recv_timeout > 0 alone.
hello_on_success_any_type(sk, metadata) ==
    IF version \in {"4.0", "4.1", "4.2"}
    THEN [sk EXCEPT !.agent = <<metadata.server>>]
    ELSE IF metadata.hints = None
    THEN [sk EXCEPT !.agent = <<metadata.server>>]
    ELSE IF metadata.hints[1].type # "NoneType" /\ metadata.hints[1].n > 0
    THEN [sk EXCEPT !.agent = <<metadata.server>>,
                    !.hints = metadata.hints,
                    !.timeout = metadata.hints]
    ELSE [sk EXCEPT !.agent = <<metadata.server>>,
                    !.hints = metadata.hints,
                    !.invalid = @ + 1]

\* The on_success handler of hello(): AsyncBolt4x0 to 4x2 pass
\* server_info.update; AsyncBolt4x3, 4x4 and Bolt5x0 move the hints to
\* configuration_hints, update server_info and set the socket timeout to
\* connection.recv_timeout_seconds if it is an int above 0, logging it as
\* invalid otherwise.
hello_on_success(sk, metadata) ==
    IF version \in {"4.0", "4.1", "4.2"}
    THEN [sk EXCEPT !.agent = <<metadata.server>>]
    ELSE IF metadata.hints = None
    THEN [sk EXCEPT !.agent = <<metadata.server>>]
    ELSE IF isinstance_int(metadata.hints[1]) /\ metadata.hints[1].n > 0
    THEN [sk EXCEPT !.agent = <<metadata.server>>,
                    !.hints = metadata.hints,
                    !.timeout = metadata.hints]
    ELSE [sk EXCEPT !.agent = <<metadata.server>>,
                    !.hints = metadata.hints,
                    !.invalid = @ + 1]

\* A connection of any protocol version that the pool has just opened, with
\* no read timeout or one of 30 seconds.
InitHello ==
    /\ responses = <<>>
    /\ state = "CONNECTED"
    /\ next_id = 1
    /\ popped = <<>>
    /\ stack = <<>>
    /\ step = <<>>
    /\ trace = <<>>
    /\ raised = NoError
    /\ outbox = <<>>
    /\ version \in Versions
    /\ pool \in BOOLEAN
    /\ agent = <<>>
    /\ Unframed
    /\ peer = <<>>
    /\ callbacks = <<>>
    /\ socket \in {Socket(None), Socket(<<Value("int", 30)>>)}
    /\ sample = <<>>
    /\ cancel = NoCancel

\* hello() up to the wait of send_all()
HelloCall ==
    /\ stack = <<>>
    /\ next_id = 1
    /\ SetConn(hello(Idle))
    /\ cancel' = NoCancel
    /\ UNCHANGED <<buffer, written, nwritten, inbox, socket, sample, peer, callbacks>>

\* The server answers HELLO with SUCCESS: _process_message, whose
\* response.on_success calls the on_success handler of hello().
HelloSuccess(server, hints) ==
    /\ Fetching
    /\ HeadWasSent
    /\ Head(responses).message = "hello"
    /\ SetConn(_process_message(
                   Observed,
                   Summary(SUCCESS, [NoMeta EXCEPT !.server = <<server>>]),
                   FALSE))
    /\ socket' = hello_on_success(socket, HelloMetadata(server, hints))
    /\ cancel' = NoCancel
    /\ UNCHANGED <<buffer, written, nwritten, inbox, sample, peer, callbacks>>

\* The server answers HELLO with FAILURE.
HelloFailure(msg) ==
    /\ msg.sig = FAILURE
    /\ Fetching
    /\ Head(responses).message = "hello"
    /\ FetchMessage(msg, FALSE)

NextHello ==
    \/ HelloCall
    \/ SendAllReturns
    \/ \E server \in Agents, hints \in {None} \cup {<<v>> : v \in HintValues} :
           HelloSuccess(server, hints)
    \/ \E msg \in ServerMessages \cup {Summary(FAILURE, NoMeta)} :
           HelloFailure(msg)

SpecHello == InitHello /\ [][NextHello]_vars

\* ------------------------------------------------- hydrating server errors

\* The keys of client_errors.
ClientErrorCodes ==
    {<<"Neo", "ClientError", "Schema", "ConstraintValidationFailed">>,
     <<"Neo", "ClientError", "Schema", "ConstraintViolation">>,
     <<"Neo", "ClientError", "Statement", "ConstraintVerificationFailed">>,
     <<"Neo", "ClientError", "Statement", "ConstraintViolation">>,
     <<"Neo", "ClientError", "Statement", "InvalidSyntax">>,
     <<"Neo", "ClientError", "Statement", "SyntaxError">>,
     <<"Neo", "ClientError", "Procedure", "TypeError">>,
     <<"Neo", "ClientError", "Statement", "InvalidType">>,
     <<"Neo", "ClientError", "Statement", "TypeError">>,
     <<"Neo", "ClientError", "General", "ForbiddenOnReadOnlyDatabase">>,
     <<"Neo", "ClientError", "General", "ReadOnly">>,
     <<"Neo", "ClientError", "Schema", "ForbiddenOnConstraintIndex">>,
     <<"Neo", "ClientError", "Schema", "IndexBelongsToConstraint">>,
     <<"Neo", "ClientError", "Security", "Forbidden">>,
     <<"Neo", "ClientError", "Transaction", "ForbiddenDueToTransactionType">>,
     <<"Neo", "ClientError", "Security", "AuthorizationFailed">>,
     <<"Neo", "ClientError", "Security", "Unauthorized">>,
     <<"Neo", "ClientError", "Security", "TokenExpired">>,
     <<"Neo", "ClientError", "Cluster", "NotALeader">>}

\* Codes of four parts that are keys of neither dict: of each
\* classification, of an unknown one, and without the prefix Neo.
OtherCodes ==
    {AuthorizationExpired, TerminatedCode, LockClientStoppedCode, DefaultCode,
     <<"Neo", "ClientError", "Statement", "ArgumentError">>,
     <<"Neo", "TransientError", "Transaction", "DeadlockDetected">>,
     <<"Neo", "DatabaseError", "Statement", "ExecutionFailed">>,
     <<"Neo", "Oops", "General", "UnknownError">>,
     <<"Bolt", "ClientError", "Security", "Unauthorized">>}

\* Codes with another number of parts than four.
MalformedCodes ==
    {<<"Oops">>, MalformedCode,
     <<"Neo", "ClientError", "Security">>,
     <<"Neo", "TransientError", "General">>,
     <<"Neo", "ClientError", "Security", "AuthorizationExpired", "Now">>,
     <<"Neo", "TransientError", "General", "DatabaseUnavailable", "">>}

\* The values of code: None, the empty string and the codes above.
HydrateCodes ==
    {NoCode, EmptyCode} \cup ClientErrorCodes \cup {DatabaseUnavailableCode}
        \cup OtherCodes \cup MalformedCodes

\* A code and what was made of it: the error hydrated and what its methods
\* returned, None while not called.
Sample(code, error, retriable, invalidates) ==
    [code |-> code, error |-> error, retriable |-> retriable,
     invalidates |-> invalidates]

InitHydrate ==
    /\ ConnInit
    /\ Unframed
    /\ \E code \in HydrateCodes : sample = Sample(code, NoError, None, None)

\* Neo4jError.hydrate(code=code)
Hydrate ==
    /\ sample.error = NoError
    /\ sample' = [sample EXCEPT !.error = hydrate(sample.code)]
    /\ UNCHANGED <<buffer, written, nwritten, inbox>>
    /\ UNCHANGED connvars_but_sample

\* error.is_retriable()
IsRetriable ==
    /\ sample.error # NoError
    /\ sample.retriable = None
    /\ sample' = [sample EXCEPT !.retriable = <<is_retriable(sample.error)>>]
    /\ UNCHANGED <<buffer, written, nwritten, inbox>>
    /\ UNCHANGED connvars_but_sample

\* error.invalidates_all_connections()
InvalidatesAllConnections ==
    /\ sample.error # NoError
    /\ sample.invalidates = None
    /\ sample' = [sample EXCEPT
           !.invalidates = <<invalidates_all_connections(sample.error)>>]
    /\ UNCHANGED <<buffer, written, nwritten, inbox>>
    /\ UNCHANGED connvars_but_sample

NextHydrate ==
    \/ Hydrate
    \/ IsRetriable
    \/ InvalidatesAllConnections

SpecHydrate == InitHydrate /\ [][NextHydrate]_vars

\* ------------------------------------- Bolt5x0 and AsyncBolt4x4 side by side

\* The most requests a connection of the pair is given.
MaxPairRequests == 3

\* run of AsyncBolt4x0, which AsyncBolt4x4 overrides: imp_user is refused.
AsyncBolt4x0_run(c, imp_user, timeout, handlers) ==
    IF imp_user # None THEN Raise(c, "ConfigurationError")
    ELSE IF tx_timeout(timeout).error # ""
    THEN Raise(c, tx_timeout(timeout).error)
    ELSE _append(c, "run", Fields(None, tx_timeout(timeout).value),
                 ResponseWith(c.next_id, "run", "Response", handlers))

\* AsyncBolt4x4.run: extra gets imp_user if it is truthy and tx_timeout if
\* timeout is not None; RUN is appended with a Response of the handlers.
AsyncBolt4x4_run(c, imp_user, timeout, handlers) ==
    IF tx_timeout(timeout).error # ""
    THEN Raise(c, tx_timeout(timeout).error)
    ELSE _append(c, "run",
                 Fields(IF Truthy(imp_user) THEN imp_user ELSE None,
                        tx_timeout(timeout).value),
                 ResponseWith(c.next_id, "run", "Response", handlers))

\* AsyncBolt4x4.begin
AsyncBolt4x4_begin(c, imp_user, timeout) ==
    IF tx_timeout(timeout).error # ""
    THEN Raise(c, tx_timeout(timeout).error)
    ELSE _append(c, "begin",
                 Fields(IF Truthy(imp_user) THEN imp_user ELSE None,
                        tx_timeout(timeout).value),
                 ResponseWith(c.next_id, "begin", "Response", "**handlers"))

\* AsyncBolt4x0.discard, which AsyncBolt4x4 inherits
AsyncBolt4x0_discard(c) ==
    _append(c, "discard", NoFields,
            ResponseWith(c.next_id, "discard", "Response", "**handlers"))

\* AsyncBolt4x0.pull
AsyncBolt4x0_pull(c) ==
    _append(c, "pull", NoFields,
            ResponseWith(c.next_id, "pull", "Response", "**handlers"))

\* AsyncBolt4x0.commit
AsyncBolt4x0_commit(c) ==
    _append(c, "commit", NoFields,
            ResponseWith(c.next_id, "commit", "CommitResponse", "**handlers"))

\* AsyncBolt4x0.rollback
AsyncBolt4x0_rollback(c) ==
    _append(c, "rollback", NoFields,
            ResponseWith(c.next_id, "rollback", "Response", "**handlers"))

\* AsyncBolt4x0.reset up to await send_all(): RESET with on_failure=fail
\* is appended; await send_all() and await fetch_all() follow.
AsyncBolt4x0_reset(c, resp, meta) ==
    LET response == ResponseWith(c.next_id, "reset", "Response", "on_failure")
    IN  await_send_all(_append(Log(c, "RESET", response, <<>>),
                               "reset", NoFields, response),
                       resp, meta, "")

\* AsyncBolt4x0.goodbye: GOODBYE is appended with no response, and
\* nothing is sent.
AsyncBolt4x0_goodbye(c) == _append(c, "goodbye", NoFields, NoResponse)

\* AsyncBolt4x3.hello, which AsyncBolt4x4 inherits, up to await
\* send_all(): HELLO is appended with an InitResponse; await send_all()
\* and await fetch_all() follow, and check_supported_server_product the
\* return of fetch_all().
AsyncBolt4x3_hello(c) ==
    await_send_all(_append(c, "hello", NoFields,
                           Response(c.next_id, "hello", "InitResponse")),
                   NoResponse, NoMeta, "hello")

\* AsyncBolt4x4.route: db_context gets imp_user if it is not None; ROUTE is
\* appended with on_success=metadata.update, up to await send_all();
\* await fetch_all() follows it.
AsyncBolt4x4_route(c, imp_user) ==
    await_send_all(_append(c, "route", Fields(imp_user, None),
                           ResponseWith(c.next_id, "route", "Response",
                                        "on_success")),
                   NoResponse, NoMeta, "")

\* The except clauses of AsyncBolt4x0._process_message around
\* await response.on_failure(...): the pool call for the error e raised.
AsyncBolt4x0_except(c, r, e) ==
    IF IsInstance(e.cls, "ServiceUnavailable")
       \/ IsInstance(e.cls, "DatabaseUnavailable")
    THEN IF c.pool THEN Log(c, "deactivate", r, <<>>) ELSE c
    ELSE IF IsInstance(e.cls, "NotALeader")
            \/ IsInstance(e.cls, "ForbiddenOnReadOnlyDatabase")
    THEN IF c.pool THEN Log(c, "on_write_failure", r, <<>>) ELSE c
    ELSE IF IsInstance(e.cls, "Neo4jError")
            /\ c.pool /\ invalidates_all_connections(e)
    THEN Log(c, "mark_all_stale", r, <<>>)
    ELSE c

RECURSIVE AsyncBolt4x0_raised(_, _, _, _)
RECURSIVE AsyncResponse_on_failure_after_reset(_, _, _, _)
RECURSIVE AsyncBolt_propagate(_, _, _)

\* An error e leaves fetch_message() inside the innermost fetch_all() of
\* the suspendable surface: it reaches the caller, or the try block around
\* await self.connection.reset() in Response.on_failure.
AsyncBolt_propagate(c, e, hraise) ==
    LET f == c.stack[Len(c.stack)]
        c1 == [c EXCEPT !.stack = SubSeq(@, 1, Len(@) - 1)]
    IN  IF f.resp = NoResponse
        THEN [c1 EXCEPT !.raised = e]
        ELSE IF IsInstance(e.cls, "SessionExpired")
                \/ IsInstance(e.cls, "ServiceUnavailable")
        THEN AsyncResponse_on_failure_after_reset(c1, f.resp, f.meta, hraise)
        ELSE AsyncBolt4x0_raised(c1, f.resp, e, hraise)

\* await response.on_failure(...) of AsyncBolt4x0._process_message raised
\* e: the pool is signalled and e is raised again.
AsyncBolt4x0_raised(c, r, e, hraise) ==
    AsyncBolt_propagate(AsyncBolt4x0_except(Log(c, "except", r, ErrArg(e)), r, e),
                        e, hraise)

\* InitResponse.on_failure under await response.on_failure(...) of
\* AsyncBolt4x0._process_message.
AsyncInitResponse_on_failure(c, r, metadata, hraise) ==
    IF metadata.code = Unauthorized
    THEN AsyncBolt4x0_raised(c, r, hydrate(metadata.code), hraise)
    ELSE AsyncBolt4x0_raised(c, r, DriverErr("ServiceUnavailable"), hraise)

\* Response.on_failure of the suspendable surface after the reset: the
\* on_failure handler, on_summary, then the hydrated error.
AsyncResponse_on_failure_after_reset(c, r, metadata, hraise) ==
    LET c1 == call_handler(c, r, "on_failure", metadata.code)
    IN  IF handler(r, "on_failure") = "fail"
        THEN AsyncBolt4x0_raised(c1, r, DriverErr("BoltProtocolError"), hraise)
        ELSE IF handler(r, "on_failure") = "caller" /\ hraise
        THEN AsyncBolt4x0_raised(c1, r, DriverErr("HandlerError"), hraise)
        ELSE AsyncBolt4x0_raised(call_handler(c1, r, "on_summary", <<>>), r,
                                 hydrate(metadata.code), hraise)

\* AsyncBolt.fetch_all after a fetch_message() that returned.
AsyncBolt_fetch_all_loop(c, hraise) ==
    LET f == c.stack[Len(c.stack)]
        c1 == [c EXCEPT !.stack = SubSeq(@, 1, Len(@) - 1)]
    IN  IF ~complete(c, f.target) THEN c
        ELSE IF f.resp = NoResponse THEN after_fetch_all(c1, f)
        ELSE AsyncResponse_on_failure_after_reset(c1, f.resp, f.meta, hraise)

\* AsyncBolt4x0._process_message(details, summary_signature,
\* summary_metadata), which AsyncBolt4x4 inherits, with what follows it in
\* fetch_all() up to the next wait for the server, or up to await
\* send_all() in the reset() of a Response.on_failure.
AsyncBolt4x0_process_message(c, msg, hraise) ==
    LET c1 == IF msg.details # <<>>
              THEN call_handler(Log(c, "RECORD", Head(c.responses), <<>>),
                                Head(c.responses), "on_records", msg.details)
              ELSE c
        response == Head(c1.responses)
        c2 == [c1 EXCEPT !.responses = Tail(@),
                         !.popped = Append(@, response.id)]
    IN  IF msg.sig = NoSignature THEN AsyncBolt_fetch_all_loop(c1, hraise)
        ELSE IF msg.sig = SUCCESS
        THEN AsyncBolt_fetch_all_loop(
                 Response_on_success(
                     ServerStateManager_transition(
                         Log(c2, "SUCCESS", response, MetaArg(msg.meta)),
                         response, msg.meta),
                     response, msg.meta),
                 hraise)
        ELSE IF msg.sig = IGNORED
        THEN AsyncBolt_fetch_all_loop(
                 Response_on_ignored(Log(c2, "IGNORED", response, <<>>),
                                     response, msg.meta),
                 hraise)
        ELSE IF msg.sig = FAILURE
        THEN IF response.cls = "InitResponse"
             THEN AsyncInitResponse_on_failure(
                      [Log(c2, "FAILURE", response, msg.meta.code)
                          EXCEPT !.state = "FAILED"],
                      response, msg.meta, hraise)
             ELSE AsyncBolt4x0_reset(
                      [Log(c2, "FAILURE", response, msg.meta.code)
                          EXCEPT !.state = "FAILED"],
                      response, msg.meta)
        ELSE AsyncBolt_propagate(c2, DriverErr("BoltProtocolError"), hraise)

\* The arguments the pair is called with: imp_user None, empty or a name;
\* timeout None, not a number, negative, 0 or positive.
PairTimeouts ==
    {Timeout("None", 0), Timeout("list", 0), Timeout("float", -1),
     Timeout("float", 0), Timeout("float", MaxTimeout)}

\* A connection of each handler that the pool has opened and said hello
\* on: the server is READY and the HELLO has its response.
InitPair ==
    /\ responses = <<>>
    /\ state = "READY"
    /\ next_id = 2
    /\ popped = <<1>>
    /\ stack = <<>>
    /\ step = <<>>
    /\ trace = <<>>
    /\ raised = NoError
    /\ outbox = <<>>
    /\ version = "5.0"
    /\ pool \in BOOLEAN
    /\ agent = <<DefaultAgent>>
    /\ Unframed
    /\ peer = Conn
    /\ callbacks = <<>>
    /\ socket = <<>>
    /\ sample = <<>>
    /\ cancel = NoCancel

\* The connection of AsyncBolt4x4 as its next call and its next message
\* find it.
PeerIdle == [peer EXCEPT !.step = <<>>, !.trace = <<>>, !.raised = NoError]
PeerObserved ==
    IF Len(peer.stack) = 1 THEN [peer EXCEPT !.step = <<>>, !.trace = <<>>]
    ELSE [peer EXCEPT !.step = <<>>]

\* The connection of Bolt5x0 becomes c and that of AsyncBolt4x4 p.
Both(c, p) ==
    /\ SetConn(c)
    /\ peer' = p
    /\ cancel' = NoCancel
    /\ UNCHANGED <<buffer, written, nwritten, inbox, socket, sample, callbacks>>

\* Both connections can take a call that enqueues a request.
PairCanCall ==
    /\ stack = <<>> /\ peer.stack = <<>>
    /\ next_id <= MaxPairRequests /\ peer.next_id <= MaxPairRequests
    /\ Len(responses) < MaxPending /\ Len(peer.responses) < MaxPending

\* run(..., timeout=timeout, imp_user=imp_user, **handlers) on both
PairRun(imp_user, timeout) ==
    /\ PairCanCall
    /\ Both(run(Idle, imp_user, timeout, "**handlers"),
            AsyncBolt4x4_run(PeerIdle, imp_user, timeout, "**handlers"))

\* begin(..., timeout=timeout, imp_user=imp_user, **handlers) on both
PairBegin(imp_user, timeout) ==
    /\ PairCanCall
    /\ Both(begin(Idle, imp_user, timeout),
            AsyncBolt4x4_begin(PeerIdle, imp_user, timeout))

\* pull(**handlers) on both
PairPull ==
    PairCanCall /\ Both(pull(Idle, "**handlers"), AsyncBolt4x0_pull(PeerIdle))

\* discard(**handlers) on both
PairDiscard ==
    /\ PairCanCall
    /\ Both(simple(Idle, "discard", "Response"), AsyncBolt4x0_discard(PeerIdle))

\* commit(**handlers) on both
PairCommit ==
    /\ PairCanCall
    /\ Both(simple(Idle, "commit", "CommitResponse"), AsyncBolt4x0_commit(PeerIdle))

\* rollback(**handlers) on both
PairRollback ==
    /\ PairCanCall
    /\ Both(simple(Idle, "rollback", "Response"), AsyncBolt4x0_rollback(PeerIdle))

\* reset() on both, up to the wait of send_all()
PairReset ==
    /\ PairCanCall
    /\ Both(reset(Idle, NoResponse, NoMeta),
            AsyncBolt4x0_reset(PeerIdle, NoResponse, NoMeta))

\* route(imp_user=imp_user) on both, up to the wait of send_all()
PairRoute(imp_user) ==
    /\ PairCanCall
    /\ Both(route(Idle, imp_user), AsyncBolt4x4_route(PeerIdle, imp_user))

\* hello() on both, up to the wait of send_all()
PairHello ==
    /\ PairCanCall
    /\ next_id <= MaxHello /\ peer.next_id <= MaxHello
    /\ Both(hello(Idle), AsyncBolt4x3_hello(PeerIdle))

\* goodbye() on both
PairGoodbye ==
    /\ stack = <<>> /\ peer.stack = <<>>
    /\ Len(SelectSeq(outbox, IsGoodbye)) < MaxGoodbye
    /\ Len(SelectSeq(peer.outbox, IsGoodbye)) < MaxGoodbye
    /\ Both(goodbye(Idle), AsyncBolt4x0_goodbye(PeerIdle))

\* send_all() on both
PairSendAll ==
    /\ stack = <<>> /\ peer.stack = <<>>
    /\ outbox # <<>>
    /\ Both(send_all(Idle), send_all(PeerIdle))

\* The send_all() that hello(), route() or reset() waits in returns on
\* both, and each call goes on to the first wait of its fetch_all().
PairSendAllReturns ==
    /\ Sending
    /\ peer.stack # <<>> /\ peer.stack[Len(peer.stack)].wait = "send_all"
    /\ Both(send_all_returns(Conn), send_all_returns(peer))

\* fetch_all() on both, up to its first wait
PairFetchAll ==
    /\ stack = <<>> /\ peer.stack = <<>>
    /\ responses # <<>> /\ peer.responses # <<>>
    /\ Both(fetch_all(Idle, NoResponse, NoMeta),
            fetch_all(PeerIdle, NoResponse, NoMeta))

\* The server sends both connections the same message inside a
\* fetch_all(), and each handler's _process_message handles it.
PairFetchMessage(msg, hraise) ==
    /\ Fetching
    /\ peer.stack # <<>> /\ peer.stack[Len(peer.stack)].wait = "fetch_all"
    /\ HeadWasSent
    /\ Len(peer.responses) > Len(SelectSeq(peer.outbox, IsRequest))
    /\ msg.sig = FAILURE =>
           next_id <= MaxPairRequests + 1 /\ peer.next_id <= MaxPairRequests + 1
    /\ Both(_process_message(Observed, msg, hraise),
            AsyncBolt4x0_process_message(PeerObserved, msg, hraise))

NextPair ==
    \/ \E imp_user \in ImpUsers, timeout \in PairTimeouts : PairRun(imp_user, timeout)
    \/ \E imp_user \in ImpUsers, timeout \in PairTimeouts : PairBegin(imp_user, timeout)
    \/ PairPull
    \/ PairDiscard
    \/ PairCommit
    \/ PairRollback
    \/ PairReset
    \/ \E imp_user \in ImpUsers : PairRoute(imp_user)
    \/ PairHello
    \/ PairGoodbye
    \/ PairSendAll
    \/ PairSendAllReturns
    \/ PairFetchAll
    \/ \E msg \in ServerMessages, hraise \in HandlerOutcomes :
           PairFetchMessage(msg, hraise)

SpecPair == InitPair /\ [][NextPair]_vars

\* ------------------ the caller's callbacks in the order they are invoked
\* The connection of the main specification after hello(), with a record
\* of every summary callback of the caller that Response.on_success,
\* on_ignored and on_failure invoke, of every FAILURE received and of every
\* RESET written.

\* Requests the caller enqueues in this specification: ids 2..MaxOrdered;
\* one more id is left for the RESET that a FAILURE triggers.
MaxOrdered == 3

\* except (SessionExpired, ServiceUnavailable): the errors that the try
\* block around self.connection.reset() in Response.on_failure swallows.
IsSwallowed(cls) ==
    IsInstance(cls, "SessionExpired") \/ IsInstance(cls, "ServiceUnavailable")

\* The events the record keeps: the summary messages, the RESETs written,
\* the callbacks of the caller, the error of a callback that raised, and an
\* error of on_failure that a reset() around it would swallow.
IsRecorded(e) ==
    \/ e.ev \in {"SUCCESS", "IGNORED", "FAILURE", "RESET",
                 "on_success", "on_ignored", "on_failure", "on_summary"}
    \/ e.ev = "except" /\ e.arg[1] = "HandlerError"
    \/ e.ev = "except" /\ IsSwallowed(e.arg[1])

\* What the record keeps of an event: of the arguments, has_more of a
\* SUCCESS and the class of an error.
Kept(e) ==
    [ev |-> e.ev, id |-> e.id,
     arg |-> IF e.ev = "SUCCESS" THEN e.arg
             ELSE IF e.ev = "except" THEN <<e.arg[1]>>
             ELSE <<>>]

Recorded(st) ==
    [i \in 1..Len(SelectSeq(st, IsRecorded)) |->
        Kept(SelectSeq(st, IsRecorded)[i])]

\* The connection becomes c, and what c.step shows is added to the record.
Remember(c) ==
    /\ SetConn(c)
    /\ callbacks' = callbacks \o Recorded(c.step)
    /\ cancel' = NoCancel
    /\ UNCHANGED <<buffer, written, nwritten, inbox, socket, sample, peer>>

\* A connection that the pool has opened and said hello on.
InitCallbacks ==
    /\ responses = <<>>
    /\ state = "READY"
    /\ next_id = 2
    /\ popped = <<1>>
    /\ stack = <<>>
    /\ step = <<>>
    /\ trace = <<>>
    /\ raised = NoError
    /\ outbox = <<>>
    /\ version = "5.0"
    /\ pool = TRUE
    /\ agent = <<DefaultAgent>>
    /\ Unframed
    /\ peer = <<>>
    /\ callbacks = <<>>
    /\ socket = <<>>
    /\ sample = <<>>
    /\ cancel = NoCancel

CanOrder ==
    stack = <<>> /\ next_id <= MaxOrdered /\ Len(responses) < MaxPending

\* Bolt5x0.run with the caller's **handlers
OrderedRun ==
    CanOrder /\ Remember(run(Idle, None, Timeout("None", 0), "**handlers"))

\* Bolt5x0.pull with the caller's **handlers
OrderedPull == CanOrder /\ Remember(pull(Idle, "**handlers"))

\* Bolt5x0.commit with the caller's **handlers
OrderedCommit == CanOrder /\ Remember(simple(Idle, "commit", "CommitResponse"))

\* Bolt5x0.reset, called by the caller, up to the wait of send_all()
OrderedReset ==
    /\ stack = <<>> /\ next_id <= MaxOrdered
    /\ Remember(reset(Idle, NoResponse, NoMeta))

\* Bolt.send_all
OrderedSendAll == stack = <<>> /\ outbox # <<>> /\ Remember(send_all(Idle))

\* Bolt.fetch_all, up to its first wait
OrderedFetchAll ==
    /\ stack = <<>>
    /\ responses # <<>>
    /\ Remember(fetch_all(Idle, NoResponse, NoMeta))

\* One server message arrives inside a fetch_all() and _process_message
\* handles it. A FAILURE needs room for the implicit RESET, which the
\* FAILURE of a HELLO does not send.
OrderedFetchMessage(msg, hraise) ==
    /\ Fetching
    /\ HeadWasSent
    /\ (msg.sig = FAILURE /\ Head(responses).cls # "InitResponse")
           => next_id <= MaxOrdered + 1
    /\ Remember(_process_message(Observed, msg, hraise))

NextCallbacks ==
    \/ OrderedRun
    \/ OrderedPull
    \/ OrderedCommit
    \/ OrderedReset
    \/ OrderedSendAll
    \/ SendAllReturns
    \/ OrderedFetchAll
    \/ \E msg \in ServerMessages, hraise \in HandlerOutcomes :
           OrderedFetchMessage(msg, hraise)

SpecCallbacks == InitCallbacks /\ [][NextCallbacks]_vars

\* Bolt5x0.hello, up to the wait of send_all(): a HELLO enqueued behind
\* the requests the caller has pipelined. Its on_success handler is the
\* connection's own and goes to the record like those of the caller.
OrderedHello == CanOrder /\ Remember(hello(Idle))

\* The same connection with hello() among the calls: a HELLO answered
\* FAILURE inside the reset() of a Response.on_failure ends that reset()
\* with a ServiceUnavailable, which on_failure swallows.
NextOrder ==
    \/ OrderedHello
    \/ OrderedRun
    \/ OrderedPull
    \/ OrderedCommit
    \/ OrderedReset
    \/ OrderedSendAll
    \/ SendAllReturns
    \/ OrderedFetchAll
    \/ \E msg \in ServerMessages, hraise \in HandlerOutcomes :
           OrderedFetchMessage(msg, hraise)

SpecOrder == InitCallbacks /\ [][NextOrder]_vars

\* --------------------------- the connection wrapped in ConnectionErrorHandler

\* The most calls made through one wrapper.
MaxCalls == 2
\* calls and assignments through the wrapper together
MaxUses == 3

\* What a method of the connection does when it is called: it returns, or
\* it raises the error e.
Returns == [kind |-> "return", error |-> NoError]
Raises(e) == [kind |-> "raise", error |-> e]

\* The errors a method raises: errors of the server, errors of the driver
\* that the wrapper catches (IncompleteCommit is a ServiceUnavailable) and
\* errors that it does not.
WrappedErrors ==
    {hydrate(code) : code \in {NoCode, SyntaxErrorCode, DatabaseUnavailableCode}}
    \cup {DriverErr(cls) :
              cls \in {"ServiceUnavailable", "IncompleteCommit", "SessionExpired",
                       "ConfigurationError", "BoltProtocolError", "TypeError"}}

MethodOutcomes == {Returns} \cup {Raises(e) : e \in WrappedErrors}

\* The error of an on_error callback that raises.
CallbackError == DriverErr("RuntimeError")

\* except (Neo4jError, ServiceUnavailable, SessionExpired) as exc
caught(e) ==
    \/ IsInstance(e.cls, "Neo4jError")
    \/ IsInstance(e.cls, "ServiceUnavailable")
    \/ IsInstance(e.cls, "SessionExpired")

\* inner(*args, **kwargs) for a method that does func: the calls of
\* on_error it makes and what the caller gets. An error caught goes to
\* self.__on_error(exc) and then the bare raise raises it again, unless
\* on_error raised: its error then leaves inner instead.
inner(func, on_error_raises) ==
    IF func.kind = "raise" /\ caught(func.error)
    THEN [called |-> <<func.error>>,
          outcome |-> IF on_error_raises THEN Raises(CallbackError) ELSE func]
    ELSE [called |-> <<>>, outcome |-> func]

\* The callbacks given as on_error: one that returns and one that raises.
Callbacks == {"returns", "raises"}

\* The connections of the caller: the one the wrapper is made for, which
\* the connection variables hold, and another one, which peer holds.
Connections == {"connection", "other"}

\* ConnectionErrorHandler(connection, on_error) and its use: connection is
\* self.__connection and callback self.__on_error; own has the other
\* attributes set on the wrapper itself, as pairs of name and value; calls
\* counts the calls through the wrapper that have ended; of the latest of
\* them, func is what the connection's method did, raises whether the
\* callback was one that raises, called the calls of on_error and outcome
\* what the caller got; on_error has the calls of on_error of all calls;
\* assigned counts the assignments through the wrapper.
\* attrs has the attributes assigned to a connection for which the
\* connection model has no field, as triples of connection, name and value.
ConnectionErrorHandler(connection, on_error) ==
    [connection |-> connection, callback |-> on_error, own |-> {},
     calls |-> 0, func |-> Returns, raises |-> FALSE, called |-> <<>>,
     on_error |-> <<>>, outcome |-> Returns, attrs |-> {}, assigned |-> 0]

\* Attribute names are the sequences of their characters.
ClassName ==
    <<"C", "o", "n", "n", "e", "c", "t", "i", "o", "n", "E", "r", "r", "o",
    "r", "H", "a", "n", "d", "l", "e", "r">>

\* "_" + self.__class__.__name__ + "__"
OwnPrefix == <<"_">> \o ClassName \o <<"_", "_">>

\* self.__connection and self.__on_error as name mangling spells them, and
\* a third name with the prefix.
OwnConnection == OwnPrefix \o <<"c", "o", "n", "n", "e", "c", "t", "i", "o", "n">>
OwnOnError == OwnPrefix \o <<"o", "n", "_", "e", "r", "r", "o", "r">>
OwnOther == OwnPrefix \o <<"f", "o", "o">>

\* A name with one underscore less than the prefix has, and the names of
\* attributes of the connection.
NearlyOwn ==
    <<"_">> \o ClassName \o <<"_">> \o <<"o", "n", "_", "e", "r", "r", "o", "r">>
PoolName == <<"p", "o", "o", "l">>
ResponsesName == <<"r", "e", "s", "p", "o", "n", "s", "e", "s">>
HookName == <<"h", "o", "o", "k">>

\* s.startswith(prefix)
startswith(s, prefix) ==
    Len(s) >= Len(prefix) /\ SubSeq(s, 1, Len(prefix)) = prefix

\* name.startswith("_" + self.__class__.__name__ + "__")
IsOwn(name) == startswith(name, OwnPrefix)

\* The pairs or triples of attrs with the one for the key replaced.
Assigned(attrs, key, value) ==
    {e \in attrs : SubSeq(e, 1, Len(key)) # key} \cup {key \o <<value>>}

\* ConnectionErrorHandler.__setattr__(name, value) on the wrapper w whose
\* connection is c: an attribute with the wrapper's prefix is set on the
\* wrapper itself, which for __connection changes the connection wrapped
\* and for __on_error the callback; every other is set on the connection.
__setattr__(w, c, name, value) ==
    IF IsOwn(name)
    THEN [wrapper |->
              IF name = OwnConnection THEN [w EXCEPT !.connection = value]
              ELSE IF name = OwnOnError THEN [w EXCEPT !.callback = value]
              ELSE [w EXCEPT !.own = Assigned(@, <<name>>, value)],
          connection |-> c]
    ELSE IF name = PoolName
    THEN [wrapper |-> w, connection |-> [c EXCEPT !.pool = value]]
    ELSE IF name = ResponsesName
    THEN [wrapper |-> w, connection |-> [c EXCEPT !.responses = value]]
    ELSE [wrapper |->
              [w EXCEPT !.attrs = Assigned(@, <<w.connection, name>>, value)],
          connection |-> c]

\* What a method of the connection that has ended did, by the error it
\* left.
Did(c) == IF c.raised = NoError THEN Returns ELSE Raises(c.raised)

\* The wrapper w after inner() around a method that did func.
Ended(w, func) ==
    [w EXCEPT !.calls = @ + 1,
              !.func = func,
              !.raises = (w.callback = "raises"),
              !.called = inner(func, w.callback = "raises").called,
              !.on_error = @ \o inner(func, w.callback = "raises").called,
              !.outcome = inner(func, w.callback = "raises").outcome]

\* self.__connection: the connection the wrapper wraps now, as the next
\* call and the next message find it.
Wrapped == IF sample.connection = "other" THEN peer ELSE Conn
WrappedIdle ==
    [Wrapped EXCEPT !.step = <<>>, !.trace = <<>>, !.raised = NoError]
WrappedObserved ==
    IF Len(Wrapped.stack) = 1
    THEN [Wrapped EXCEPT !.step = <<>>, !.trace = <<>>]
    ELSE [Wrapped EXCEPT !.step = <<>>]

\* The connection wrapped becomes c; the other one stays as it is.
SetWrapped(c) ==
    /\ IF sample.connection = "other"
       THEN peer' = c /\ SetConn(Conn)
       ELSE peer' = peer /\ SetConn(c)
    /\ cancel' = NoCancel
    /\ UNCHANGED <<buffer, written, nwritten, inbox, socket, callbacks>>

\* A method called through the wrapper has taken the connection to c: while
\* it waits in send_all() or fetch_all() inner() waits with it; once it has ended, inner()
\* calls on_error for an error caught, and the caller gets the outcome.
Through(c) ==
    /\ SetWrapped(IF c.stack = <<>>
                  THEN [c EXCEPT !.raised =
                                     inner(Did(c), sample.callback = "raises")
                                         .outcome.error]
                  ELSE c)
    /\ sample' = IF c.stack = <<>> THEN Ended(sample, Did(c)) ELSE sample

\* Two fresh connections, the first wrapped with either callback.
InitWrapper ==
    /\ responses = <<>>
    /\ state = "CONNECTED"
    /\ next_id = 1
    /\ popped = <<>>
    /\ stack = <<>>
    /\ step = <<>>
    /\ trace = <<>>
    /\ raised = NoError
    /\ outbox = <<>>
    /\ version = "5.0"
    /\ pool = TRUE
    /\ agent = <<>>
    /\ Unframed
    /\ peer = Conn
    /\ callbacks = <<>>
    /\ socket = <<>>
    /\ cancel = NoCancel
    /\ sample \in {ConnectionErrorHandler("connection", f) : f \in Callbacks}

\* No call through the wrapper is under way, and the caller has another
\* use of the wrapper to make.
BetweenCalls ==
    /\ stack = <<>> /\ peer.stack = <<>>
    /\ sample.calls + sample.assigned < MaxUses

\* The caller may call a method through the wrapper that makes a request:
\* the two connections have fewer than MaxCalls requests together.
WrapperCanCall ==
    /\ BetweenCalls
    /\ sample.calls < MaxCalls
    /\ next_id + peer.next_id <= MaxCalls + 1
    /\ Len(Wrapped.responses) < MaxPending

\* w.hello(), up to the wait of send_all()
WrappedHello ==
    /\ WrapperCanCall
    /\ Wrapped.next_id <= MaxHello
    /\ Through(hello(WrappedIdle))

\* w.run(query, timeout=timeout, **handlers)
WrappedRun(timeout) ==
    WrapperCanCall /\ Through(run(WrappedIdle, None, timeout, "**handlers"))

\* w.reset(), up to the wait of send_all()
WrappedReset ==
    WrapperCanCall /\ Through(reset(WrappedIdle, NoResponse, NoMeta))

\* w.send_all()
WrappedSendAll ==
    /\ BetweenCalls
    /\ sample.calls < MaxCalls
    /\ Wrapped.outbox # <<>>
    /\ Through(send_all(WrappedIdle))

\* The send_all() that w.hello() or w.reset() waits in returns, that of the
\* reset() of a Response.on_failure included, and the call goes on to the
\* first wait of its fetch_all().
WrappedSendAllReturns ==
    /\ Wrapped.stack # <<>>
    /\ Wrapped.stack[Len(Wrapped.stack)].wait = "send_all"
    /\ Through(send_all_returns(Wrapped))

\* w.fetch_all(), up to its first wait
WrappedFetchAll ==
    /\ BetweenCalls
    /\ sample.calls < MaxCalls
    /\ Wrapped.responses # <<>>
    /\ Through(fetch_all(WrappedIdle, NoResponse, NoMeta))

\* Bolt.fetch_message inside the fetch_all() of a method called through the
\* wrapper: one server message arrives and _process_message handles it.
WrappedFetchMessage(msg, hraise) ==
    /\ Wrapped.stack # <<>>
    /\ Wrapped.stack[Len(Wrapped.stack)].wait = "fetch_all"
    /\ Len(Wrapped.responses) > Len(SelectSeq(Wrapped.outbox, IsRequest))
    /\ (msg.sig = FAILURE /\ Head(Wrapped.responses).cls # "InitResponse")
           => next_id + peer.next_id <= MaxCalls + 2
    /\ Through(_process_message(WrappedObserved, msg, hraise))

\* Whether the caller's on_failure callback raises when this step calls
\* it, for the connection wrapped.
WrappedHandlerOutcomes == IF Len(Wrapped.stack) > 1 THEN BOOLEAN ELSE {FALSE}

\* The names the caller assigns to through the wrapper.
AssignedNames ==
    {OwnConnection, OwnOnError, OwnOther, OwnPrefix, NearlyOwn, PoolName,
     ResponsesName, HookName}

\* The values the caller assigns to an attribute through the wrapper: a
\* connection to the wrapper's own __connection, a callback to its
\* __on_error, a pool or None to pool, an empty deque or one with a new
\* Response to responses, a function to hook, and a value to the others.
ValuesOf(name) ==
    IF name = OwnConnection THEN Connections
    ELSE IF name = OwnOnError THEN Callbacks
    ELSE IF name = PoolName THEN BOOLEAN
    ELSE IF name = ResponsesName
    THEN {<<>>, <<Response(Wrapped.next_id, "run", "Response")>>}
    ELSE IF name = HookName THEN {"function"}
    ELSE {"value"}

\* w.name = value: __setattr__, between two calls. A Response the caller
\* makes for the value takes the next number of the connection.
WrappedSetAttr(name, value) ==
    /\ BetweenCalls
    /\ (name = ResponsesName /\ value # <<>>)
           => next_id + peer.next_id <= MaxCalls + 1
    /\ SetWrapped(IF name = ResponsesName /\ value # <<>>
                  THEN [__setattr__(sample, Wrapped, name, value).connection
                           EXCEPT !.next_id = @ + 1]
                  ELSE __setattr__(sample, Wrapped, name, value).connection)
    /\ sample' = [__setattr__(sample, Wrapped, name, value).wrapper
                      EXCEPT !.assigned = @ + 1]

\* w.hook(): __getattr__ finds the function the caller assigned to the
\* connection wrapped, which is callable, and wraps it as it wraps a
\* method; the function does func and does not touch the connection.
WrappedCall(func) ==
    /\ BetweenCalls
    /\ sample.calls < MaxCalls
    /\ <<sample.connection, HookName, "function">> \in sample.attrs
    /\ Through([WrappedIdle EXCEPT !.raised = func.error])

\* w.hook() on a connection that has no attribute hook:
\* getattr(self.__connection, name) raises AttributeError before anything
\* is wrapped or called.
WrappedMissing ==
    /\ stack = <<>> /\ peer.stack = <<>>
    /\ <<sample.connection, HookName, "function">> \notin sample.attrs
    /\ SetWrapped([WrappedIdle EXCEPT !.raised = DriverErr("AttributeError")])
    /\ sample' = sample

\* The messages of the server while a method called through the wrapper
\* waits: a summary of each kind, with the FAILURE codes of an error
\* without pool call and of one with, and a summary with an unknown tag.
WrapperMessages ==
    {Summary(SUCCESS, Meta(FALSE, NoCode)), Summary(IGNORED, NoMeta),
     Summary(FAILURE, Meta(FALSE, SyntaxErrorCode)),
     Summary(FAILURE, Meta(FALSE, DatabaseUnavailableCode)),
     Summary(UNKNOWN_TAG, NoMeta)}

NextWrapper ==
    \/ WrappedHello
    \/ \E timeout \in {Timeout("None", 0), Timeout("list", 0)} :
           WrappedRun(timeout)
    \/ WrappedReset
    \/ WrappedSendAll
    \/ WrappedSendAllReturns
    \/ WrappedFetchAll
    \/ \E msg \in WrapperMessages, hraise \in WrappedHandlerOutcomes :
           WrappedFetchMessage(msg, hraise)
    \/ \E name \in AssignedNames :
           \E value \in ValuesOf(name) : WrappedSetAttr(name, value)
    \/ \E func \in MethodOutcomes : WrappedCall(func)
    \/ WrappedMissing

SpecWrapper == InitWrapper /\ [][NextWrapper]_vars

\* -------------------------------------------------------------- properties

\* The positions of the trace holding an event of the kinds `evs`.
Positions(evs) == {i \in 1..Len(trace) : trace[i].ev \in evs}

\* The pool call section 7 of the specification assigns to an error, given
\* as the argument of its "except" event (class, then code); "" for none.
ExpectedSignal(arg) ==
    IF arg[1] \in {"ServiceUnavailable", "DatabaseUnavailable"}
    THEN "deactivate"
    ELSE IF arg[1] \in {"NotALeader", "ForbiddenOnReadOnlyDatabase"}
    THEN "on_write_failure"
    ELSE IF Tail(arg) = AuthorizationExpired THEN "mark_all_stale"
    ELSE ""

\* C1: responses are consumed strictly in enqueue order. Requests are
\* numbered in enqueue order, so the i-th response popped is number i, and
\* the responses still queued are the next numbers, in order: none is
\* skipped and none is reordered.
C1_FifoOrder ==
    /\ \A i \in 1..Len(popped) : popped[i] = i
    /\ \A j \in 1..Len(responses) : responses[j].id = Len(popped) + j

\* Three responses were popped while another request was pending.
C1_Witness == Len(popped) >= 3 /\ responses # <<>>

\* C2: a RECORD delivery calls on_records of the response at the head of
\* the queue and leaves the queue as it is; every other reply removes
\* exactly the head from the queue (the queue then holds the rest, with at
\* most the RESET that Response.on_failure appends at its tail). Replies
\* arrive while a fetch_all() waits for them.
C2_RecordKeepsHead ==
    [][Fetching =>
        IF step' # <<>> /\ step'[1].ev = "RECORD"
        THEN /\ step'[1].id = Head(responses).id
             /\ Head(responses).message \in CallerRequests =>
                    /\ Len(step') >= 2
                    /\ step'[2] =
                           Event("on_records", Head(responses).id, <<"row">>)
             /\ responses' = responses
             /\ popped' = popped
        ELSE /\ popped' = Append(popped, Head(responses).id)
             /\ \/ responses' = Tail(responses)
                \/ responses' = Append(Tail(responses),
                                       Response(next_id, "reset", "Response"))
    ]_vars

\* Records were delivered to the head of a queue of two, after an earlier
\* response was popped.
C2_Witness ==
    /\ Len(responses) = 2
    /\ popped # <<>>
    /\ \E i \in 1..Len(step) :
           step[i] = Event("on_records", Head(responses).id, <<"row">>)

\* C3: is_reset is true exactly when the queue is empty and the state is
\* READY, or the queue is not empty and its last response is a reset's.
C3_IsResetIff ==
    is_reset <=>
        \/ responses = <<>> /\ state = "READY"
        \/ responses # <<>> /\ responses[Len(responses)].message = "reset"

\* C4: a SUCCESS reply to RUN moves READY to STREAMING and TX_READY to
\* TX_STREAMING; a SUCCESS reply to PULL or DISCARD keeps STREAMING /
\* TX_STREAMING while its summary has has_more, and without has_more moves
\* the state to READY outside a transaction and to TX_READY inside one.
C4_StreamingStates ==
    [][(stack # <<>> /\ step' # <<>> /\ step'[1].ev = "SUCCESS") =>
        LET m == Head(responses).message
            more == step'[1].arg = <<"has_more">>
        IN  /\ (m = "run" /\ state = "READY") => state' = "STREAMING"
            /\ (m = "run" /\ state = "TX_READY") => state' = "TX_STREAMING"
            /\ (m \in {"pull", "discard"} /\ state = "STREAMING") =>
                   state' = IF more THEN "STREAMING" ELSE "READY"
            /\ (m \in {"pull", "discard"} /\ state = "TX_STREAMING") =>
                   state' = IF more THEN "TX_STREAMING" ELSE "TX_READY"
    ]_vars

\* The last PULL of a transaction's result was answered without has_more.
C4_Witness ==
    /\ state = "TX_READY"
    /\ \E i \in 1..Len(step) :
           step[i].ev = "on_change" /\ step[i].arg = <<"TX_STREAMING", "TX_READY">>

\* C5: each error raised from a response's on_failure is followed at once
\* by the pool call its class and code select (deactivate, on_write_failure,
\* mark_all_stale) and by no pool call when they select none; this happens
\* once per FAILURE, the pool is called nowhere else, and the error reaches
\* the caller.
C5_PoolSignal ==
    /\ \A i \in Positions({"except"}) :
           /\ \E j \in 1..(i - 1) :
                  trace[j].ev = "FAILURE" /\ trace[j].id = trace[i].id
           /\ \A k \in Positions({"except"}) :
                  trace[k].id = trace[i].id => k = i
           /\ IF ExpectedSignal(trace[i].arg) # ""
              THEN /\ i < Len(trace)
                   /\ trace[i + 1] = Event(ExpectedSignal(trace[i].arg),
                                           trace[i].id, <<>>)
              ELSE i = Len(trace) \/ trace[i + 1].ev \notin PoolCalls
    /\ \A p \in Positions(PoolCalls) :
           /\ p > 1
           /\ trace[p - 1].ev = "except"
           /\ trace[p - 1].id = trace[p].id
    /\ (stack = <<>> /\ Positions({"except"}) # {}) =>
           \E i \in Positions({"except"}) :
               /\ \A k \in Positions({"except"}) : k <= i
               /\ ErrArg(raised) = trace[i].arg

\* An AuthorizationExpired failure reached the caller after mark_all_stale.
C5_Witness ==
    /\ stack = <<>>
    /\ raised.code = AuthorizationExpired
    /\ Positions({"mark_all_stale"}) # {}

\* C6: a NotALeader FAILURE to a request other than HELLO raises NotALeader, calls on_write_failure exactly once,
\* and the state is FAILED when the error reaches the caller.
C6_FailedAtCaller ==
    [][(Len(stack) = 2 /\ stack' = <<>>
        /\ stack[2].meta.code = NotALeaderCode) =>
           /\ raised'.cls = "NotALeader"
           /\ \E p \in 1..Len(trace') :
                  /\ trace'[p] = Event("on_write_failure", stack[2].resp.id, <<>>)
                  /\ \A q \in 1..Len(trace') :
                         trace'[q].ev \in PoolCalls => q = p
           /\ state' = "FAILED"
    ]_vars

\* C7: the state leaves FAILED only in a step that processes a SUCCESS
\* reply to a RESET request, and then it is READY: no SUCCESS to another
\* request, no IGNORED and no FAILURE moves it out of FAILED.
C7_FailedUntilReset ==
    [][(state = "FAILED" /\ state' # "FAILED") =>
           /\ stack # <<>>
           /\ Head(responses).message = "reset"
           /\ step' # <<>>
           /\ step'[1].ev = "SUCCESS"
           /\ step'[1].id = Head(responses).id
           /\ state' = "READY"
    ]_vars

\* A RESET sent by the caller in state FAILED was answered SUCCESS.
C7_Witness ==
    /\ stack = <<>>
    /\ raised = NoError
    /\ state = "READY"
    /\ \E i \in 1..Len(step) :
           step[i].ev = "on_change" /\ step[i].arg = <<"FAILED", "READY">>

\* C8, as the specification states it: on a FAILURE the on_failure callback
\* comes first, with no pool call and no other protocol activity between
\* the reply and the callback; the pool call and the propagation follow.
C8_CallbackFirst ==
    \A i \in Positions({"on_failure"}) :
        /\ i > 1
        /\ trace[i - 1].ev = "FAILURE"
        /\ trace[i - 1].id = trace[i].id
        /\ \A p \in Positions(PoolCalls) : trace[p].id = trace[i].id => p > i

\* The order of the failure path in the trace: each on_failure handler
\* called comes after the FAILURE of its response and the RESET sent right
\* after it, and before every "except" and pool call for that response; the
\* error it raises is caught next; each pool call follows the catch of its
\* response's error; and what reaches the caller comes after all of it.
FailurePathOrder ==
    /\ \A i \in Positions({"on_failure", "fail"}) :
           /\ \E j \in 1..(i - 1) :
                  /\ trace[j].ev = "FAILURE"
                  /\ trace[j].id = trace[i].id
                  /\ j + 1 < i
                  /\ trace[j + 1].ev = "RESET"
           /\ \A p \in Positions(PoolCalls \cup {"except"}) :
                  trace[p].id = trace[i].id => p > i
           /\ i < Len(trace)
           /\ trace[i + 1].ev = "except"
           /\ trace[i + 1].id = trace[i].id
    /\ \A p \in Positions(PoolCalls) :
           /\ p > 1
           /\ trace[p - 1].ev = "except"
           /\ trace[p - 1].id = trace[p].id
    /\ (stack = <<>> /\ raised # NoError /\ trace # <<>>) =>
           trace[Len(trace)].ev \in PoolCalls \cup {"except"}

\* The reset() of a Response.on_failure ends with the ServiceUnavailable
\* that a pending HELLO answered FAILURE raises, which that on_failure
\* swallows (_common.py 218-221).
SwallowedByReset ==
    /\ responses # <<>>
    /\ Head(responses).cls = "InitResponse"
    /\ Len(step') >= 2
    /\ step'[1].ev = "FAILURE"
    /\ step'[1].id = Head(responses).id
    /\ step'[2] = Event("except", Head(responses).id, <<"ServiceUnavailable">>)

\* C8: on a FAILURE the RESET of Response.on_failure is sent first and
\* replies are fetched until it is answered, or until the fetch ends with a
\* ServiceUnavailable that on_failure swallows; then the on_failure callback of the failed response is called,
\* then on_summary if the callback returned, then the error is caught and
\* the pool called, and then the error propagates. No pool call for the
\* failed response precedes its callback. The same order holds for the
\* on_failure handler that reset() supplies for its own response.
C8_ResetThenCallback ==
    [][/\ FailurePathOrder'
       /\ stack # <<>> =>
              \A i \in 1..Len(step') :
                  step'[i].ev \in {"on_failure", "fail"} =>
                      /\ i > 1
                      /\ \/ /\ step'[1].ev \in {"SUCCESS", "IGNORED"}
                            /\ step'[1].id = stack[Len(stack)].target
                         \/ SwallowedByReset
                      /\ stack[Len(stack)].resp.id = step'[i].id
                      /\ \E j \in 1..(Len(trace') - 1) :
                             /\ trace'[j].ev = "FAILURE"
                             /\ trace'[j].id = step'[i].id
                             /\ trace'[j + 1] =
                                    Event("RESET",
                                          stack[Len(stack)].target, <<>>)
                      /\ i < Len(step')
                      /\ IF step'[i + 1] = Event("on_summary", step'[i].id, <<>>)
                         THEN /\ i + 1 < Len(step')
                              /\ step'[i + 2].ev = "except"
                              /\ step'[i + 2].id = step'[i].id
                         ELSE /\ step'[i + 1].ev = "except"
                              /\ step'[i + 1].id = step'[i].id
    ]_vars

\* A callback was called after the RESET and before deactivate, and the
\* error reached the caller.
C8_Witness ==
    /\ stack = <<>>
    /\ raised.cls = "DatabaseUnavailable"
    /\ \E i \in Positions({"on_failure"}), p \in Positions({"deactivate"}) :
           i < p /\ trace[i].id = trace[p].id

\* C9: when the on_failure callback of a response raises, the pool call
\* that the code of its FAILURE selects is made all the same.
C9_SignalDespiteRaise ==
    \A i \in Positions({"on_failure"}) :
        (/\ i < Len(trace)
         /\ trace[i + 1] = Event("except", trace[i].id, <<"HandlerError">>)
         /\ ExpectedSignal(ErrArg(hydrate(trace[i].arg))) # "") =>
            \E p \in (i + 1)..Len(trace) :
                trace[p] = Event(ExpectedSignal(ErrArg(hydrate(trace[i].arg))),
                                 trace[i].id, <<>>)

\* C10: when the RESET sent on a FAILURE is itself answered FAILURE, the
\* call ends with the connection defunct and a protocol error raised.
C10_ResetFailureDefunct ==
    (/\ stack = <<>>
     /\ \E i \in Positions({"RESET"}), j \in Positions({"FAILURE"}) :
            i < j /\ trace[i].id = trace[j].id) =>
        /\ state = "DEFUNCT"
        /\ raised.cls = "BoltProtocolError"

HasOnIgnored(r) == handler(r, "on_ignored") # ""

\* The ids of the responses among rs that have an on_ignored handler.
WithOnIgnored(rs) ==
    [i \in 1..Len(SelectSeq(rs, HasOnIgnored)) |->
        SelectSeq(rs, HasOnIgnored)[i].id]

\* C11: while the server answers a reset() of the caller with IGNORED for
\* each response pending before the RESET and then SUCCESS for the RESET,
\* the on_ignored handlers called are those of the pending responses, each
\* once and in enqueue order; when reset() has returned all of them were
\* called, nothing was raised, the queue is empty, the state is READY and
\* is_reset is true, whatever the state was when reset() was called.
C11_ResetCancelsPending ==
    cancel.active =>
        IF stack = <<>>
        THEN /\ cancel.ignored = WithOnIgnored(cancel.pending)
             /\ raised = NoError
             /\ responses = <<>>
             /\ state = "READY"
             /\ is_reset
        ELSE /\ Len(cancel.ignored) <= Len(WithOnIgnored(cancel.pending))
             /\ cancel.ignored =
                    SubSeq(WithOnIgnored(cancel.pending), 1, Len(cancel.ignored))
             /\ Len(responses) + Len(popped) = next_id - 1

\* A reset() called in state FAILED with a request pending has returned.
C11_Witness ==
    /\ cancel.active
    /\ stack = <<>>
    /\ cancel.before = "FAILED"
    /\ Len(cancel.ignored) >= 1

\* The message just processed was a summary whose tag is none of SUCCESS,
\* IGNORED and FAILURE: a response was popped and no branch logged its tag.
UnknownTagStep ==
    /\ stack # <<>>
    /\ popped' # popped
    /\ (step' = <<>> \/ step'[1].ev \notin {"SUCCESS", "IGNORED", "FAILURE"})

\* C12: a summary with an unknown tag raises a protocol error to the caller,
\* calls no callback, leaves the server state to no transition of the table
\* and leaves the connection defunct.
C12_UnknownTagDefunct ==
    [][UnknownTagStep =>
        /\ raised'.cls = "BoltProtocolError"
        /\ \A i \in 1..Len(step') :
               step'[i].ev \notin {"on_records", "on_success", "on_failure",
                                  "on_ignored", "on_summary", "fail"}
        /\ state' = "DEFUNCT"
    ]_vars

\* C12, without the defunct mark: the protocol error reaches the caller, no
\* callback is called and the server state is the one before the message.
C12_UnknownTagRaises ==
    [][UnknownTagStep =>
        /\ raised'.cls = "BoltProtocolError"
        /\ stack' = <<>>
        /\ \A i \in 1..Len(step') :
               step'[i].ev \notin {"on_records", "on_success", "on_failure",
                                  "on_ignored", "on_summary", "fail"}
        /\ state' = state
    ]_vars

\* A caller's operation that enqueued a response.
RequestStep == stack = <<>> /\ next_id' = next_id + 1

\* A caller's goodbye().
GoodbyeStep ==
    stack = <<>> /\ outbox' = Append(outbox, Message("goodbye", NoFields))

\* One RECORD message was processed.
RecordStep == stack # <<>> /\ step' # <<>> /\ step'[1].ev = "RECORD"

\* C15 as stated: every operation that enqueues a response only writes its
\* message to the outbox, and returns without sending or waiting.
C15_NoOperationSends ==
    [][RequestStep =>
        /\ Len(outbox') = Len(outbox) + 1
        /\ outbox'[Len(outbox')].message = responses'[Len(responses')].message
        /\ SubSeq(outbox', 1, Len(outbox)) = outbox
        /\ stack' = <<>>
    ]_vars

\* C15: run, discard, pull, begin, commit, rollback and goodbye only write
\* their message to the outbox (and, but for goodbye, enqueue their
\* response): nothing is sent and nothing received; hello, route and reset
\* append their message too, but do not return with it: they go on into
\* send_all(), which sends the whole outbox, and from there into
\* fetch_all() to wait for replies; the outbox only ever shrinks by being
\* sent whole, and replies are consumed only inside a fetch_all().
C15_BuildersOnlyEnqueue ==
    [][/\ RequestStep =>
           /\ responses' = Append(responses, responses'[Len(responses')])
           /\ popped' = popped
           /\ Len(outbox') = Len(outbox) + 1
           /\ outbox'[Len(outbox')].message = responses'[Len(responses')].message
           /\ SubSeq(outbox', 1, Len(outbox)) = outbox
           /\ IF responses'[Len(responses')].message \in CallerRequests
              THEN stack' = <<>>
              ELSE Len(stack') = 1 /\ stack'[1].wait = "send_all"
       /\ Sending =>
           /\ outbox' = <<>>
           /\ Len(stack') = Len(stack)
           /\ stack'[Len(stack')].wait = "fetch_all"
           /\ responses' = responses
           /\ popped' = popped
       /\ GoodbyeStep =>
           responses' = responses /\ popped' = popped /\ stack' = <<>>
       /\ Len(outbox') < Len(outbox) => outbox' = <<>>
       /\ popped' # popped => Fetching
    ]_vars

\* A batch of two requests is in the outbox, none of it sent.
C15_Witness ==
    /\ stack = <<>>
    /\ Len(outbox) >= 2
    /\ Len(responses) = Len(outbox)
    /\ state = "READY"

\* C16: the queue holds the responses enqueued and not yet consumed by a
\* summary: its length is the number of requests enqueued minus the number
\* of summaries consumed; a RECORD message and a goodbye() leave the queue
\* as it is.
C16_QueueCount ==
    [][/\ Len(responses') = (next_id' - 1) - Len(popped')
       /\ RequestStep => Len(responses') = Len(responses) + 1
       /\ GoodbyeStep => responses' = responses /\ popped' = popped
       /\ RecordStep => responses' = responses /\ popped' = popped
    ]_vars

\* A summary was consumed, a RECORD was just processed for the response now
\* at the head, and a GOODBYE is in the outbox.
C16_Witness ==
    /\ stack # <<>>
    /\ popped # <<>>
    /\ step # <<>> /\ step[1].ev = "RECORD"
    /\ \E i \in 1..Len(outbox) : outbox[i].message = "goodbye"

\* C17: the server state changes only in a step that processes a SUCCESS
\* or a FAILURE summary; no operation of the caller changes it.
C17_StateChangesOnSummary ==
    [][state' # state =>
        /\ stack # <<>>
        /\ popped' # popped
        /\ step'[1].ev \in {"SUCCESS", "FAILURE"}
    ]_vars

\* A BEGIN and a further request were built in state READY.
C17_Witness ==
    /\ stack = <<>>
    /\ state = "READY"
    /\ Len(outbox) >= 2
    /\ outbox[1].message = "begin"

\* timeout=None
NoTimeout == Timeout("None", 0)

\* An operation raised before it appended anything: outbox, queue and
\* server state are as before, nothing was sent and nothing is awaited.
NothingAppended ==
    /\ outbox' = outbox
    /\ responses' = responses
    /\ next_id' = next_id
    /\ state' = state
    /\ stack' = <<>>
    /\ step' = <<>>

C14_TimeoutValidation ==
    [][\A timeout \in Timeouts \ {NoTimeout} :
        (RunWith(None, timeout) \/ BeginWith(None, timeout)) =>
            IF timeout.kind \in {"list", "text"}
               \/ (timeout.kind = "float" /\ timeout.n < 0)
            THEN raised' # NoError /\ NothingAppended
            ELSE IF timeout.kind = "float"
            THEN /\ raised' = NoError
                 /\ Len(outbox') = Len(outbox) + 1
                 /\ outbox'[Len(outbox')].fields.tx_timeout =
                        <<timeout.n \div TimeoutUnit>>
            ELSE TRUE
    ]_vars

\* C13, for an imp_user that `if imp_user:` takes as given (not None and
\* not empty) in run and begin, and any imp_user but None in route and
\* before 4.4.
C13_ImpersonationNamed ==
    [][\A imp_user \in ImpUsers \ {None} :
        /\ (RunWith(imp_user, NoTimeout) \/ BeginWith(imp_user, NoTimeout)) =>
              IF version \in {"4.4", "5.0"}
              THEN /\ raised' = NoError
                   /\ Len(responses') = Len(responses) + 1
                   /\ Len(outbox') = Len(outbox) + 1
                   /\ outbox'[Len(outbox')].fields.imp_user =
                          IF Truthy(imp_user) THEN imp_user ELSE None
              ELSE raised'.cls = "ConfigurationError" /\ NothingAppended
        /\ RouteWith(imp_user) =>
              IF version \in {"4.4", "5.0"}
              THEN /\ raised' = NoError
                   /\ Len(responses') = Len(responses) + 1
                   /\ step' # <<>>
                   /\ step'[Len(step')].ev = "send"
                   /\ step'[Len(step')].arg.message = "route"
                   /\ step'[Len(step')].arg.fields.imp_user = imp_user
              ELSE raised'.cls = "ConfigurationError" /\ NothingAppended
    ]_vars

\* C14 as the code has it: the timeout is rejected when float() or int()
\* fails on it or when int(1000 * float(timeout)) is negative, and a
\* negative timeout above -1 millisecond is sent as tx_timeout 0.
C14_TimeoutTruncated ==
    [][\A timeout \in Timeouts \ {NoTimeout} :
        (RunWith(None, timeout) \/ BeginWith(None, timeout)) =>
            IF timeout.kind # "float" \/ timeout.n <= 0 - TimeoutUnit
            THEN raised' # NoError /\ NothingAppended
            ELSE /\ raised' = NoError
                 /\ Len(outbox') = Len(outbox) + 1
                 /\ outbox'[Len(outbox')].fields.tx_timeout =
                        <<IF timeout.n < 0 THEN 0
                          ELSE timeout.n \div TimeoutUnit>>
    ]_vars

\* The chunks and messages a receiver reads from the bytes s: a two-byte
\* big-endian length n, n payload bytes, and so on; a zero length ends a
\* message. cur holds the chunks of the message being read and msgs the
\* messages read. ok says that every chunk was whole, every message had a
\* chunk and the bytes ended with the end of a message.
RECURSIVE ParseFrom(_, _, _)
ParseFrom(s, cur, msgs) ==
    IF s = <<>> THEN [ok |-> cur = <<>>, msgs |-> msgs]
    ELSE IF Len(s) < 2 THEN [ok |-> FALSE, msgs |-> msgs]
    ELSE IF s[1] * 256 + s[2] = 0
    THEN IF cur = <<>> THEN [ok |-> FALSE, msgs |-> msgs]
         ELSE ParseFrom(SubSeq(s, 3, Len(s)), <<>>, Append(msgs, cur))
    ELSE IF Len(s) < 2 + s[1] * 256 + s[2] THEN [ok |-> FALSE, msgs |-> msgs]
    ELSE ParseFrom(SubSeq(s, 3 + s[1] * 256 + s[2], Len(s)),
                   Append(cur, SubSeq(s, 3, 2 + s[1] * 256 + s[2])), msgs)

Parse(s) == ParseFrom(s, <<>>, <<>>)

\* The payloads of chunks, one after the other.
RECURSIVE Payload(_)
Payload(chunks) ==
    IF chunks = <<>> THEN <<>> ELSE Head(chunks) \o Payload(Tail(chunks))

\* view() holds exactly the messages written, each as chunks whose payloads
\* make up its bytes, each followed by a terminator.
Framed ==
    /\ Parse(view(buffer)).ok
    /\ Len(Parse(view(buffer)).msgs) = Len(written)
    /\ \A i \in 1..Len(written) :
           Payload(Parse(view(buffer)).msgs[i]) = written[i].bytes

\* Every message in the buffer is closed.
AllClosed == written # <<>> /\ ~IsOpen

\* C18 as stated: with any max_chunk_size from 1 on, no write() fails, and
\* once the messages are closed view() holds them framed.
C18_AnyChunkSize ==
    /\ ~buffer.error
    /\ AllClosed => Framed

\* C18: with a max_chunk_size from 1 to 65535, the largest length a chunk
\* header holds, no write() fails, and once the messages written (by any
\* write() calls) are closed by the caller's chunk() calls, view() parses as
\* their chunks, the payloads of each making up its bytes in order, each
\* followed by the terminator 00 00.
C18_Framing ==
    buffer.max_chunk_size <= U16Max =>
        /\ ~buffer.error
        /\ AllClosed => Framed

\* Two messages are closed in a buffer that was cleared before, the first
\* written by two write() calls that made more than one chunk.
C18_Witness ==
    /\ AllClosed
    /\ Len(written) = 2
    /\ Len(written[1].writes) = 2
    /\ Len(Parse(view(buffer)).msgs[1]) > 1
    /\ nwritten > TotalBytes(written)

\* floor(n / m) chunks of m bytes, then one of n mod m bytes if that is not 0
ExpectedChunkSizes(n, m) ==
    [i \in 1..(n \div m) |-> m] \o (IF n % m > 0 THEN <<n % m>> ELSE <<>>)

\* The chunks of the one message in view() have the sizes expected for
\* the bytes written and the max_chunk_size.
SingleWriteChunks ==
    /\ Framed
    /\ [i \in 1..Len(Parse(view(buffer)).msgs[1]) |->
            Len(Parse(view(buffer)).msgs[1][i])]
         = ExpectedChunkSizes(Len(written[1].bytes), buffer.max_chunk_size)

\* One message was written by one write() into an empty Outbox.
SingleWrite == Len(written) = 1 /\ Len(written[1].writes) = 1

\* C19 as stated: a message of N bytes written by one write() into an
\* empty Outbox with any max_chunk_size M is written without an error and,
\* once closed, held as floor(N / M) chunks of M bytes, then one of N mod M
\* bytes if N mod M > 0, then the terminator.
C19_AnySingleWrite ==
    SingleWrite =>
        /\ ~buffer.error
        /\ AllClosed => SingleWriteChunks

\* C19: a message of N bytes written by one write() into an empty Outbox
\* with a max_chunk_size M, where M or N is at most 65535 so that no chunk
\* is longer than a chunk header can say, is written without an error and,
\* once closed, held as floor(N / M) chunks of M bytes, then one of N mod M
\* bytes if N mod M > 0, then the terminator, and the payloads make up the
\* bytes written. With M and N both above 65535 the write() fails.
C19_SingleWrite ==
    /\ (/\ SingleWrite
        /\ \/ buffer.max_chunk_size <= U16Max
           \/ Len(written[1].bytes) <= U16Max) =>
           /\ ~buffer.error
           /\ AllClosed => SingleWriteChunks
    /\ (/\ SingleWrite
        /\ buffer.max_chunk_size > U16Max
        /\ Len(written[1].bytes) > U16Max) => buffer.error

\* Scenario S3: 20000 bytes were written by one write() with the default
\* max_chunk_size and the message is closed.
C19_Witness ==
    /\ AllClosed
    /\ Len(written) = 1
    /\ written[1].writes = <<LongMessage>>
    /\ buffer.max_chunk_size = DefaultChunkSize

\* The items the generator has consumed to the end.
RECURSIVE Consumed(_, _)
Consumed(items, used) ==
    IF items = <<>> \/ Len(Head(items)) > used THEN <<>>
    ELSE <<Head(items)>> \o Consumed(Tail(items), used - Len(Head(items)))

\* C20: zero-length chunks between messages, however many in a row, yield
\* nothing and leave the next message as it is: the pairs yielded so far are
\* the first of those the generator yields on the same bytes without the
\* NOOPs, there is one for each message consumed, and on all the bytes
\* received the generator yields what it yields on them without the NOOPs.
C20_NoopsSkipped ==
    /\ inbox.messages =
           SubSeq(AllYielded(Flatten(SelectSeq(inbox.sock, IsMessageItem)), 0),
                  1, Len(inbox.messages))
    /\ Len(inbox.messages) =
           Len(SelectSeq(Consumed(inbox.sock, inbox.used), IsMessageItem))
    /\ AllYielded(Flatten(inbox.sock), 0) =
           AllYielded(Flatten(SelectSeq(inbox.sock, IsMessageItem)), 0)

\* Two NOOPs in a row arrived between two messages, and both messages were
\* yielded.
C20_Witness ==
    /\ Len(inbox.sock) = 4
    /\ IsMessageItem(inbox.sock[1])
    /\ inbox.sock[2] = Noop /\ inbox.sock[3] = Noop
    /\ IsMessageItem(inbox.sock[4])
    /\ inbox.sock[4] # inbox.sock[1]
    /\ Len(inbox.messages) = 2
    /\ inbox.noops = 2

\* The pairs of the messages that arrived whole.
WholeMessages == AllYielded(Flatten(SelectSeq(inbox.sock, IsMessageItem)), 0)

\* C21: when a read from the socket fails, in a chunk header or in a chunk
\* payload, on_error is called exactly once, with that error; no part of a
\* message is yielded (the pairs yielded are those of messages that arrived
\* whole); and the Inbox has ended: every later pop() yields nothing and
\* calls on_error no more.
C21_ErrorExhausts ==
    /\ [](/\ inbox.errors = (IF inbox.exhausted THEN inbox.error ELSE <<>>)
          /\ inbox.messages = SubSeq(WholeMessages, 1, Len(inbox.messages))
          /\ inbox.exhausted => inbox.messages = WholeMessages)
    /\ [][inbox.exhausted =>
             /\ inbox'.exhausted
             /\ inbox'.messages = inbox.messages
             /\ inbox'.errors = inbox.errors
             /\ inbox'.result \in {inbox.result, "StopIteration"}]_vars

\* A read failed inside the payload of the second chunk of a message, after
\* a message was yielded, and pop() was called twice more.
C21_Witness ==
    /\ inbox.exhausted
    /\ Len(inbox.messages) = 1
    /\ inbox.tail = <<0, 1, 177, 0, 1>>
    /\ inbox.used = Len(Flatten(inbox.sock)) + 5
    /\ inbox.stopped = 2

\* hello() has returned after a SUCCESS.
HelloDone ==
    /\ popped = <<1>> /\ stack = <<>>
    /\ socket.agent # None

\* The hint is a positive integer.
PositiveInteger(v) == v.type = "int" /\ v.n > 0

\* The server that answered HELLO names a product the driver supports.
SupportedServer == socket.agent[1] \in SupportedAgents

\* C22: after HELLO on 4.3, 4.4 or 5.0 whose SUCCESS, from a server the
\* driver supports, carries the hint connection.recv_timeout_seconds, the
\* socket's read timeout is the hint if the hint is a positive integer, and
\* what it was otherwise; nothing is raised, the state is READY and the
\* agent is recorded.
C22_RecvTimeoutHint ==
    (/\ HelloDone /\ SupportedServer
     /\ version \in {"4.3", "4.4", "5.0"} /\ socket.hints # None) =>
        /\ socket.timeout = (IF PositiveInteger(socket.hints[1])
                             THEN socket.hints ELSE socket.before)
        /\ raised = NoError
        /\ state = "READY"
        /\ socket.agent \in {<<a>> : a \in Agents}

\* What the handlers do with the hint: the read timeout is the hint if it
\* passes isinstance(hint, int), which True and False pass too, and is
\* above 0; otherwise it is what it was and the hint is logged as invalid.
\* Before 4.3 the handler only records the agent. hello() raises nothing
\* unless the agent is of a product that is not supported.
C22_HintAsPythonInt ==
    HelloDone =>
        /\ raised = IF SupportedServer THEN NoError
                    ELSE DriverErr("UnsupportedServerProduct")
        /\ agent = socket.agent
        /\ state = "READY"
        /\ socket.agent \in {<<a>> : a \in Agents}
        /\ IF version \in {"4.3", "4.4", "5.0"} /\ socket.hints # None
           THEN IF isinstance_int(socket.hints[1]) /\ socket.hints[1].n > 0
                THEN socket.timeout = socket.hints /\ socket.invalid = 0
                ELSE socket.timeout = socket.before /\ socket.invalid = 1
           ELSE socket.timeout = socket.before /\ socket.invalid = 0

\* hydrate was called on the code of the sample.
Hydrated == sample.error # NoError

\* C23: hydrating a code whose number of dot-separated parts is not four
\* gives an error of class DatabaseError with classification DatabaseError,
\* category General and title UnknownError; a missing code (None, or the
\* empty string) is hydrated as Neo.DatabaseError.General.UnknownError.
C23_MalformedCode ==
    Hydrated =>
        /\ Len(sample.code) \notin {0, 4} /\ sample.code # EmptyCode =>
               /\ sample.error.cls = "DatabaseError"
               /\ sample.error.classification = "DatabaseError"
               /\ sample.error.category = "General"
               /\ sample.error.title = "UnknownError"
               /\ sample.error.code = sample.code
        /\ sample.code \in {NoCode, EmptyCode} =>
               sample.error = hydrate(DefaultCode)
        /\ sample.code = DefaultCode =>
               /\ sample.error.cls = "DatabaseError"
               /\ sample.error.classification = "DatabaseError"
               /\ sample.error.category = "General"
               /\ sample.error.title = "UnknownError"
               /\ sample.error.code = DefaultCode

\* A code of five parts that starts with a client error's code was hydrated.
C23_Witness ==
    /\ Hydrated
    /\ Len(sample.code) = 5
    /\ sample.code[2] = "ClientError"
    /\ sample.error.cls = "DatabaseError"

\* C24: the error hydrated from Neo.ClientError.Security.AuthorizationExpired
\* has the classification TransientError and the class TransientError, and
\* its invalidates_all_connections() is true; it is false for the error of
\* every other code.
C24_AuthorizationExpired ==
    /\ (Hydrated /\ sample.code = AuthorizationExpired) =>
           /\ sample.error.classification = "TransientError"
           /\ sample.error.cls = "TransientError"
    /\ sample.invalidates # None =>
           sample.invalidates = <<sample.code = AuthorizationExpired>>

\* invalidates_all_connections() was called on the error hydrated from
\* Neo.ClientError.Security.AuthorizationExpired.
C24_Witness ==
    /\ sample.code = AuthorizationExpired
    /\ sample.invalidates = <<TRUE>>

\* The classes the claim names.
TransientClasses ==
    {"TransientError", "DatabaseUnavailable", "NotALeader",
     "ForbiddenOnReadOnlyDatabase"}
ClientAndDatabaseClasses ==
    {"ClientError", "ConstraintError", "CypherSyntaxError", "CypherTypeError",
     "Forbidden", "AuthError", "TokenExpired", "DatabaseError"}

\* C25: is_retriable() of a hydrated error is true exactly when its class is
\* TransientError, DatabaseUnavailable, NotALeader or
\* ForbiddenOnReadOnlyDatabase and its code is neither
\* Neo.TransientError.Transaction.Terminated nor
\* Neo.TransientError.Transaction.LockClientStopped; it is false for
\* ClientError, its other subclasses and DatabaseError.
C25_Retriable ==
    sample.retriable # None =>
        /\ sample.retriable =
               <<sample.error.cls \in TransientClasses
                     /\ sample.error.code # TerminatedCode
                     /\ sample.error.code # LockClientStoppedCode>>
        /\ sample.error.cls \in ClientAndDatabaseClasses =>
               sample.retriable = <<FALSE>>

\* is_retriable() was called on the error of Terminated, which is of class
\* TransientError and not retriable.
C25_Witness ==
    /\ sample.code = TerminatedCode
    /\ sample.error.cls = "TransientError"
    /\ sample.retriable = <<FALSE>>

\* The cursors and the length prefix of the current chunk agree.
HeaderInPlace ==
    /\ buffer._start = buffer._header + 2
    /\ buffer._header < buffer._start
    /\ buffer._start <= buffer._end
    /\ Len(buffer._data) >= buffer._start
    /\ buffer._data[buffer._header + 1] * 256 + buffer._data[buffer._header + 2]
           = buffer._end - buffer._start

\* C27 as stated: after any calls of write(), chunk() and clear() on any
\* Outbox the prefix at the header offset holds end - start, start is
\* header + 2 and header < start <= end.
C27_AlwaysTransmittable == HeaderInPlace

\* C27: on an Outbox with a max_chunk_size of at most 65535, after any calls
\* of write(), chunk() and clear(), the two bytes at the header offset of the
\* current chunk hold end - start, big-endian, start is header + 2 and
\* header < start <= end.
C27_HeaderInPlace ==
    buffer.max_chunk_size <= U16Max => HeaderInPlace

\* Two bytes were written and cleared; then chunk() put the header of the
\* current chunk where they lay, and a third byte was written to it.
C27_Witness ==
    /\ buffer.max_chunk_size = 2
    /\ buffer._header = 2
    /\ buffer._end = 5
    /\ nwritten = 3
    /\ buffer._data[5] = 2
    /\ HeaderInPlace

\* The length prefixes from the offset pos up to the header of the current
\* chunk are in place, one chunk after the other, and none is above
\* max_chunk_size.
RECURSIVE PrefixesWithin(_, _)
PrefixesWithin(o, pos) ==
    IF pos = o._header THEN TRUE
    ELSE IF pos > o._header THEN FALSE
    ELSE /\ o._data[pos + 1] * 256 + o._data[pos + 2] <= o.max_chunk_size
         /\ PrefixesWithin(o, pos + 2 + o._data[pos + 1] * 256 + o._data[pos + 2])

\* C28: after any calls of write(), chunk() and clear(), no chunk of the
\* buffer has more payload than max_chunk_size: the length prefix of every
\* chunk before the current one is at most max_chunk_size, and so is the
\* payload of the current one.
C28_ChunkBound ==
    /\ PrefixesWithin(buffer, 0)
    /\ buffer._end - buffer._start <= buffer.max_chunk_size

\* A write of more bytes than max_chunk_size has filled a chunk and begun
\* the next.
C28_Witness ==
    /\ buffer.max_chunk_size = 2
    /\ buffer._header = 4
    /\ buffer._data[1] * 256 + buffer._data[2] = 2
    /\ buffer._end - buffer._start = 1
    /\ nwritten = 3

\* The message of an item, whatever the chunks it was sent in.
MessageOf(item) ==
    CHOOSE m \in WireMessages :
        \E k \in 1..MaxSplit : item = Chunked(m, k) \o <<0, 0>>

\* What a fresh Inbox yields on the message alone, sent as one chunk.
Fresh(item) ==
    _yield_messages(Chunked(MessageOf(item), Len(MessageOf(item))) \o <<0, 0>>,
                    0).message

\* The messages the generator has consumed to the end.
ConsumedMessages == SelectSeq(Consumed(inbox.sock, inbox.used), IsMessageItem)

\* C29: the Inbox yields exactly one (tag, fields) pair for each message it
\* has consumed to the terminator, and the pair is the one a fresh Inbox
\* yields on that message alone sent as one chunk, whatever the chunks it
\* arrived in and whatever was yielded before it; after a yield the bytes
\* consumed end at the terminator of a message, and __next__ returns for the
\* pair what it returns for the fresh one.
C29_OnePairPerMessage ==
    /\ Len(inbox.messages) = Len(ConsumedMessages)
    /\ \A j \in 1..Len(inbox.messages) :
           /\ inbox.messages[j] = Fresh(ConsumedMessages[j])
           /\ __next__(inbox.messages[j]) = __next__(Fresh(ConsumedMessages[j]))
    /\ inbox.result = "yield" =>
           inbox.used = Len(Flatten(Consumed(inbox.sock, inbox.used)))

\* The same message was yielded twice, once sent in chunks of one byte and
\* once in chunks of two, after a message of another kind.
C29_Witness ==
    /\ Len(inbox.messages) = 3
    /\ inbox.result = "yield"
    /\ Len(ConsumedMessages) = 3
    /\ MessageOf(ConsumedMessages[1]) # MessageOf(ConsumedMessages[2])
    /\ ConsumedMessages[2] = Chunked(Packed(113, <<1>>), 1) \o <<0, 0>>
    /\ ConsumedMessages[3] = Chunked(Packed(113, <<1>>), 2) \o <<0, 0>>
    /\ __next__(inbox.messages[3]).details = <<1>>

\* C30: Bolt5x0 and AsyncBolt4x4 are the same protocol machine for run,
\* begin, pull, discard, commit, rollback, reset and route: given the same
\* calls with the same arguments and the same server messages, the two
\* connections have the same messages in the outbox with the same fields,
\* the same response queue, the same server state, the same responses
\* completed, the same calls in progress, the same error raised to the
\* caller, and have logged the same handler calls, state changes and pool
\* calls in the same order.
C30_SameMachine == peer = Conn

\* The server answered a request of the caller on both connections with
\* FAILURE and the code of NotALeader: after the implicit RESET both called
\* the caller's on_failure and on_summary, called on_write_failure on the
\* pool, raised the error to the caller and are READY again.
C30_Witness ==
    /\ peer = Conn
    /\ stack = <<>>
    /\ raised.cls = "NotALeader"
    /\ \E i, j, k, l \in 1..Len(peer.trace) :
           /\ i < j /\ j < k /\ k < l
           /\ peer.trace[i].ev = "RESET"
           /\ peer.trace[j].ev = "on_failure"
           /\ peer.trace[k].ev = "except"
           /\ peer.trace[l].ev = "on_write_failure"
    /\ peer.state = "READY"
    /\ peer.popped = <<1, 2, 3>>

\* The method of the latest call raised an instance of Neo4jError,
\* ServiceUnavailable or SessionExpired.
RaisedHandled ==
    /\ sample.calls > 0
    /\ sample.func.kind = "raise"
    /\ \/ IsInstance(sample.func.error.cls, "Neo4jError")
       \/ IsInstance(sample.func.error.cls, "ServiceUnavailable")
       \/ IsInstance(sample.func.error.cls, "SessionExpired")

\* C31: when a wrapped method raises Neo4jError, ServiceUnavailable or
\* SessionExpired, on_error is called exactly once
\* with that exception and the same exception reaches the caller; when the
\* method returns or raises any other exception, on_error is not called.
C31_AlwaysReraised ==
    sample.calls > 0 =>
        IF RaisedHandled
        THEN /\ sample.called = <<sample.func.error>>
             /\ sample.outcome = sample.func
        ELSE /\ sample.called = <<>>
             /\ sample.outcome = sample.func

\* The events of the latest step that are named in evs.
StepPositions(evs) == {i \in 1..Len(step) : step[i].ev \in evs}

\* The latest message was a FAILURE in reply to HELLO.
HelloFailed ==
    /\ popped = <<1>>
    /\ step # <<>>
    /\ step[1].ev = "FAILURE" /\ step[1].id = 1

\* C32: a FAILURE reply to HELLO is handled without an implicit RESET
\* (nothing is sent or enqueued, hello() has ended) and without a call of
\* any handler; with the code Neo.ClientError.Security.Unauthorized the
\* AuthError hydrated from the metadata is raised and no pool method is
\* called; with any other code, or none, ServiceUnavailable is raised and
\* pool.deactivate is called exactly once and no other pool method (on a
\* connection whose pool is None there is no pool to call); either way the
\* server state is FAILED.
C32_HelloFailure ==
    HelloFailed =>
        /\ state = "FAILED"
        /\ stack = <<>> /\ responses = <<>> /\ outbox = <<>> /\ next_id = 2
        /\ StepPositions({"RESET", "send", "fail", "on_records", "on_success",
                          "on_ignored", "on_failure", "on_summary",
                          "on_change"}) = {}
        /\ IF step[1].arg = Unauthorized
           THEN /\ raised = hydrate(Unauthorized)
                /\ raised.cls = "AuthError"
                /\ raised.code = Unauthorized
                /\ StepPositions(PoolCalls) = {}
           ELSE /\ raised = DriverErr("ServiceUnavailable")
                /\ Cardinality(StepPositions({"deactivate"})) =
                       IF pool THEN 1 ELSE 0
                /\ StepPositions(PoolCalls \ {"deactivate"}) = {}

\* HELLO on 5.0 was answered FAILURE without a code: ServiceUnavailable
\* was raised after one pool.deactivate.
C32_Witness ==
    /\ HelloFailed
    /\ version = "5.0"
    /\ step[1].arg = NoCode
    /\ raised.cls = "ServiceUnavailable"
    /\ step[Len(step)].ev = "deactivate"

\* C33: the handling of a FAILURE sends at most one implicit RESET for
\* the failed request, and a FAILURE in reply to a RESET triggers no further
\* RESET: after the FAILURE of a response that a RESET enqueued, the next
\* thing the connection does is not another RESET.
C33_ResetFailureNoReset ==
    \A i \in Positions({"RESET"}), j \in Positions({"FAILURE"}) :
        (i < j /\ trace[i].id = trace[j].id) =>
            (j = Len(trace) \/ trace[j + 1].ev # "RESET")

\* The RESETs sent while one FAILURE is handled stay below the number of
\* requests a connection of the model may enqueue only because the model
\* stops there: every RESET answered FAILURE has sent the next one.
C33_ResetChain ==
    \A j \in Positions({"FAILURE"}) :
        (\E i \in 1..(j - 1) : trace[i].ev = "RESET" /\ trace[i].id = trace[j].id) =>
            /\ j < Len(trace)
            /\ trace[j + 1] = Event("RESET", trace[j].id + 1, <<>>)

\* The positions in the record of the callbacks of the kinds evs.
Invoked(evs) == {i \in 1..Len(callbacks) : callbacks[i].ev \in evs}

\* C34 as stated: the caller's summary callbacks are invoked in the order
\* their requests were enqueued, the on_failure handler of a failed request
\* before the on_ignored handlers of the requests enqueued after it.
C34_EnqueueOrder ==
    \A i, j \in Invoked({"on_success", "on_ignored", "on_failure"}) :
        i < j => callbacks[i].id < callbacks[j].id

\* The message events of the record: a reply received or a RESET written.
IsMessage(i) == callbacks[i].ev \in {"SUCCESS", "IGNORED", "FAILURE", "RESET"}

\* The on_failure callback at i follows the fetch of the RESET written at
\* f + 1 for the FAILURE at f, which ended at e with the RESET answered:
\* the callbacks of the requests between the failed one and the RESET have
\* run, those of later requests have not.
AfterAnswer(i, f, e) ==
    /\ callbacks[e].ev \in {"SUCCESS", "IGNORED"}
    /\ callbacks[e].id = callbacks[f + 1].id
    /\ \A j \in Invoked({"on_success", "on_ignored"}) :
           /\ (/\ callbacks[i].id < callbacks[j].id
               /\ callbacks[j].id < callbacks[f + 1].id) => (f < j /\ j < i)
           /\ callbacks[f + 1].id < callbacks[j].id => i < j

\* The same, the fetch having ended at e with an error that on_failure
\* swallows, raised for a request between the failed one and the RESET: the
\* callbacks of the requests before that one have run, those of later
\* requests have not.
AfterSwallow(i, f, e) ==
    /\ callbacks[e].ev = "except"
    /\ IsSwallowed(callbacks[e].arg[1])
    /\ callbacks[i].id < callbacks[e].id
    /\ callbacks[e].id < callbacks[f + 1].id
    /\ e = i - 1
    /\ \A j \in Invoked({"on_success", "on_ignored"}) :
           /\ (/\ callbacks[i].id < callbacks[j].id
               /\ callbacks[j].id < callbacks[e].id) => (f < j /\ j < i)
           /\ callbacks[e].id < callbacks[j].id => i < j

\* C34: the caller's on_success and on_ignored callbacks are invoked in the
\* order their requests were enqueued, and the on_failure callback of a
\* failed request is invoked after the RESET that its FAILURE triggered has
\* been written and the fetch of its answer has ended, with the answer or
\* with an error that on_failure swallows, and before another message is
\* received: after the on_success and on_ignored callbacks of the requests
\* answered in that fetch, and before those of the requests answered later.
C34_CompletionOrder ==
    /\ \A i, j \in Invoked({"on_success", "on_ignored"}) :
           i < j => callbacks[i].id < callbacks[j].id
    /\ \A i \in Invoked({"on_failure"}) :
           \E f \in 1..(i - 3) :
               /\ callbacks[f].ev = "FAILURE"
               /\ callbacks[f].id = callbacks[i].id
               /\ callbacks[f + 1].ev = "RESET"
               /\ \A j \in Invoked({"on_success", "on_ignored"}) :
                      callbacks[j].id < callbacks[i].id => j < f
               /\ \E e \in (f + 2)..(i - 1) :
                      /\ \A k \in (e + 1)..(i - 1) : ~IsMessage(k)
                      /\ AfterAnswer(i, f, e) \/ AfterSwallow(i, f, e)

\* A request failed while a HELLO was pending behind it: the HELLO was
\* answered FAILURE inside the reset(), whose ServiceUnavailable was
\* swallowed, and the on_failure callback of the failed request followed
\* with the RESET unanswered.
C34_Witness ==
    \E i \in Invoked({"on_failure"}) :
        /\ i > 3
        /\ callbacks[i - 1].ev = "except"
        /\ callbacks[i - 1].arg = <<"ServiceUnavailable">>
        /\ callbacks[i].id < callbacks[i - 1].id
        /\ \A k \in 1..Len(callbacks) :
               (callbacks[k].ev = "RESET" /\ callbacks[k].id > callbacks[i].id)
                   => \E r \in 1..Len(responses) :
                          responses[r].id = callbacks[k].id

\* The number of zero-length prefixes (00 00) that a receiver meets in the
\* bytes s from the offset pos on, reading one chunk after the other.
RECURSIVE ZeroPrefixes(_, _)
ZeroPrefixes(s, pos) ==
    IF pos + 2 > Len(s) THEN 0
    ELSE IF s[pos + 1] * 256 + s[pos + 2] = 0 THEN 1 + ZeroPrefixes(s, pos + 2)
    ELSE ZeroPrefixes(s, pos + 2 + s[pos + 1] * 256 + s[pos + 2])

\* The messages the caller has closed with its chunk() calls.
Closed == {i \in 1..Len(written) : written[i].closed}

\* The zero-length prefixes of view() are the terminators of the messages
\* closed, one after the bytes of each, and nothing else.
OnlyTerminators ==
    /\ ZeroPrefixes(view(buffer), 0) = Cardinality(Closed)
    /\ Len(Parse(view(buffer)).msgs) = Cardinality(Closed)
    /\ \A i \in Closed : Payload(Parse(view(buffer)).msgs[i]) = written[i].bytes

\* C35 as stated: for any write() calls on any Outbox, the only zero-length
\* prefixes in view() are those of the caller's chunk() calls, and none
\* lies in the middle of a message.
C35_NoEmptyChunkAnySize == OnlyTerminators

\* C35: on an Outbox with a max_chunk_size of at most 65535, write() opens
\* no chunk that stays empty: after any write() calls the only zero-length
\* prefixes in view() are those the caller's chunk() calls put after the
\* messages it closed, so a receiver meets no terminator in the middle of a
\* message.
C35_NoEmptyChunk ==
    buffer.max_chunk_size <= U16Max => OnlyTerminators

\* A message is closed, and the three bytes of the next one went into two
\* chunks: write() opened the second when the first was full.
C35_Witness ==
    /\ buffer.max_chunk_size = 2
    /\ Len(written) = 2
    /\ written[1].closed /\ ~written[2].closed
    /\ Len(written[2].bytes) = 3
    /\ buffer._end - buffer._start = 1
    /\ OnlyTerminators

\* The responses of the caller's requests: every response the record shows
\* but those of the RESETs, which reset() gives an on_failure handler only.
OfCaller(id) == \A i \in Invoked({"RESET"}) : callbacks[i].id # id

\* The positions in the record of the on_summary calls of response id.
Summaries(id) == {i \in Invoked({"on_summary"}) : callbacks[i].id = id}

\* The record has the callback ev of the response of position i next to it.
Then(i, ev) ==
    /\ i < Len(callbacks)
    /\ callbacks[i + 1].ev = ev
    /\ callbacks[i + 1].id = callbacks[i].id

\* C36: on_summary is invoked at most once for a response. For a request
\* of the caller it is invoked exactly once, right after on_success, on a
\* SUCCESS without has_more; not at all on a SUCCESS with has_more; exactly
\* once, right after on_ignored, on an IGNORED; and on a FAILURE exactly
\* once, right after on_failure, if the on_failure callback was invoked and
\* returned, and not at all if it raised or was never invoked. Every
\* on_summary call follows the kind-specific callback of its response.
C36_SummaryOnce ==
    /\ \A i \in Invoked({"on_summary"}) :
           /\ Cardinality(Summaries(callbacks[i].id)) = 1
           /\ i > 1
           /\ callbacks[i - 1].ev \in {"on_success", "on_ignored", "on_failure"}
           /\ callbacks[i - 1].id = callbacks[i].id
    /\ \A i \in Invoked({"SUCCESS"}) :
           OfCaller(callbacks[i].id) =>
               /\ Then(i, "on_success")
               /\ IF callbacks[i].arg = <<"has_more">>
                  THEN Summaries(callbacks[i].id) = {}
                  ELSE Summaries(callbacks[i].id) = {i + 2}
    /\ \A i \in Invoked({"IGNORED"}) :
           OfCaller(callbacks[i].id) =>
               Then(i, "on_ignored") /\ Summaries(callbacks[i].id) = {i + 2}
    /\ \A i \in Invoked({"on_failure"}) :
           IF Then(i, "except") THEN Summaries(callbacks[i].id) = {}
           ELSE Summaries(callbacks[i].id) = {i + 1}
    /\ \A i \in Invoked({"FAILURE"}) :
           (\A j \in Invoked({"on_failure"}) : callbacks[j].id # callbacks[i].id)
               => Summaries(callbacks[i].id) = {}

\* A request failed while another was pending: the pending one was
\* IGNORED, with on_ignored and on_summary, and then the failed one got
\* on_failure and on_summary.
C36_Witness ==
    \E i \in Invoked({"on_ignored"}), j \in Invoked({"on_failure"}) :
        /\ i < j
        /\ Then(i, "on_summary")
        /\ Then(j, "on_summary")
        /\ Cardinality(Invoked({"on_summary"})) = 2

\* What the processing of an IGNORED reply to the response r shows: the
\* log line, on_ignored and on_summary if r has them.
IgnoredEvents(r) ==
    <<Event("IGNORED", r.id, <<>>)>>
    \o (IF handler(r, "on_ignored") # ""
        THEN <<Event("on_ignored", r.id, <<>>)>> ELSE <<>>)
    \o (IF handler(r, "on_summary") # ""
        THEN <<Event("on_summary", r.id, <<>>)>> ELSE <<>>)

\* The step processes an IGNORED reply to the response at the head.
IgnoredStep ==
    /\ stack # <<>>
    /\ responses # <<>>
    /\ step' # <<>>
    /\ step'[1] = Event("IGNORED", Head(responses).id, <<>>)

\* The response at the head is the RESET that a Response.on_failure sent
\* and waits for: once it is complete, reset() returns into on_failure.
EndsImplicitReset ==
    /\ stack[Len(stack)].target = Head(responses).id
    /\ stack[Len(stack)].resp # NoResponse

\* The response at the head is the one hello() waits for: once it is
\* complete, fetch_all() returns into hello(), which checks the server's
\* product (_bolt5.py 132).
EndsHello ==
    /\ stack[Len(stack)].target = Head(responses).id
    /\ stack[Len(stack)].resp = NoResponse
    /\ stack[Len(stack)].call = "hello"

\* C37: processing an IGNORED reply pops the response at the head, marks it
\* complete and invokes its on_ignored callback (and on_summary), and
\* changes nothing else: the server state, the requests enqueued and the
\* outbox stay, no pool method is called and no error is raised; the
\* fetch_all() waiting for that response returns. Only when the response is
\* the RESET of a Response.on_failure does more follow in the step, which
\* is that on_failure going on after its reset(); and when it is hello's,
\* the error of the step is the one of hello's product check, if any.
C37_IgnoredFrame ==
    [][IgnoredStep =>
           /\ responses' = Tail(responses)
           /\ popped' = Append(popped, Head(responses).id)
           /\ state' = state
           /\ next_id' = next_id
           /\ outbox' = outbox
           /\ Len(step') >= Len(IgnoredEvents(Head(responses)))
           /\ SubSeq(step', 1, Len(IgnoredEvents(Head(responses))))
                  = IgnoredEvents(Head(responses))
           /\ ~EndsImplicitReset =>
                  /\ step' = IgnoredEvents(Head(responses))
                  /\ raised' =
                         IF EndsHello
                            /\ check_supported_server_product(agent) # ""
                         THEN DriverErr(check_supported_server_product(agent))
                         ELSE NoError
                  /\ agent' = agent
                  /\ pool' = pool
                  /\ trace' = Observed.trace
                  /\ stack' = IF stack[Len(stack)].target = Head(responses).id
                              THEN SubSeq(stack, 1, Len(stack) - 1) ELSE stack
    ]_vars

\* An IGNORED reply to a request of the caller was processed in state
\* FAILED while the fetch_all() of an implicit RESET waits.
C37_Witness ==
    /\ Len(stack) = 2
    /\ state = "FAILED"
    /\ raised = NoError
    /\ Len(step) = 3
    /\ step[1].ev = "IGNORED"
    /\ step[2].ev = "on_ignored"
    /\ step[3].ev = "on_summary"
    /\ popped # <<>>
    /\ popped[Len(popped)] = step[1].id

====
